---- MODULE Spec2Model ----
(***************************************************************************)
(* keg: the catalog store (internal/store), the conditional-fetch          *)
(* scheduler (internal/scheduler) and the catalog builder                  *)
(* (internal/index), as a state machine.                                   *)
(*                                                                         *)
(* The data directory (index-light.json.gz and meta.json) is shared; each  *)
(* process of Procs owns one store.FS, and with it one hot cache.  A       *)
(* RefreshIndex call is split at every access to shared state: reading the *)
(* clock, reading or renaming a file.                                      *)
(*                                                                         *)
(* Time is counted in units of twelve hours.  The zero time.Time is 0;     *)
(* the wall clock starts more than RefreshInterval after it.               *)
(*                                                                         *)
(* A Go string is a TLA+ string, except for the hex digest and the local   *)
(* ETag, which are tuples (<<>> is the empty string) so that the           *)
(* concatenation "sha256:" + hex can be written down.  A file is <<>> when *)
(* it does not exist and <<content>> when it does; a nil byte slice is     *)
(* <<>> and a non-nil one <<bytes>>.  The bytes of the blob are a sequence  *)
(* of chunks, one per Write of the copy loop, so that a file can be seen   *)
(* half written.                                                           *)
(***************************************************************************)
EXTENDS Integers, Sequences, FiniteSets, TLC

\* ------------------------------------------------------------------ bounds
MaxClock == 5

\* RefreshIndex calls in one behaviour
MaxCalls == 3

\* globalconfig.RefreshInterval = 24 * time.Hour, in clock units of 12 hours
RefreshInterval == 2

ZeroTime == 0

\* the first reading of the wall clock
Epoch == ZeroTime + RefreshInterval + 1

Procs == {"p1", "p2"}

\* the process of the sequential specification
SeqProcs == {"p1"}

\* ------------------------------------------------------------ store.Meta
ZeroMeta ==
  [ETag |-> <<>>, GeneratedAt |-> ZeroTime, Count |-> 0, SizeBytes |-> 0,
   SHA256 |-> <<>>, UpstreamETag |-> "", LastSuccess |-> ZeroTime,
   LastChecked |-> ZeroTime]

\* the metadata a test leaves behind without a blob (WriteMeta on a new FS)
DanglingMeta == [ZeroMeta EXCEPT !.LastChecked = Epoch, !.UpstreamETag = "etag-dangling"]

\* --------------------------------------------------------- upstream bodies
\* A body is the top-level JSON token kind, the records of the array and
\* what follows the last record: the closing "]" or the end of the input.
\* The record "BAD" does not decode into a formula.
GoodBody1 == [top |-> "array", recs |-> <<"foo">>, end |-> "]"]

GoodBody2 == [top |-> "array", recs |-> <<"bar", "baz">>, end |-> "]"]

BadRecordBody == [top |-> "array", recs |-> <<"foo", "BAD">>, end |-> "]"]

\* {"not":"array"}
NonArrayBody == [top |-> "object", recs |-> <<>>, end |-> "eof"]

\* an array cut off after a complete record: [{"name":"foo"}
UnclosedBody == [top |-> "array", recs |-> <<"foo">>, end |-> "eof"]

NoBody == [top |-> "none", recs |-> <<>>, end |-> "eof"]

\* what an AdvancedFetcher may return: an error, or a FetchResult
FetchOutcomes ==
  { [err |-> TRUE,  Status |-> 0,   ETag |-> "",       Body |-> NoBody],
    [err |-> FALSE, Status |-> 304, ETag |-> "",       Body |-> NoBody],
    [err |-> FALSE, Status |-> 500, ETag |-> "",       Body |-> NoBody],
    [err |-> FALSE, Status |-> 200, ETag |-> "etag-1", Body |-> GoodBody1],
    [err |-> FALSE, Status |-> 200, ETag |-> "",       Body |-> GoodBody2],
    [err |-> FALSE, Status |-> 200, ETag |-> "etag-2", Body |-> BadRecordBody],
    [err |-> FALSE, Status |-> 200, ETag |-> "etag-3", Body |-> NonArrayBody],
    [err |-> FALSE, Status |-> 200, ETag |-> "etag-4", Body |-> UnclosedBody] }

NoResult == [err |-> TRUE, Status |-> 0, ETag |-> "", Body |-> NoBody]

\* ------------------------------------------------------ index.BuildLightIndex
\* sha256.Sum256 rendered with %x: a digest that determines its input
SHA256Hex(bytes) == <<"hex", bytes>>

toItemLight(f) == [Name |-> f, SearchText |-> <<"lower", f>>]

\* the gzip stream as the chunks the writer emits: the head of the wrapper
\* object with its generation time, then one chunk for every item
GzipOf(generated, items) == <<[generated_at |-> generated]>> \o items

\* len(data): a file's size in chunks
GzipLen(gz) == Len(gz)

EmptyResult ==
  [err |-> TRUE, Gzip |-> <<>>, Generated |-> ZeroTime, Count |-> 0,
   SHA256Hex |-> <<>>, SizeBytes |-> 0]

RECURSIVE DecodeLoop(_, _, _)
\* the for dec.More() loop: <<ok, items>> after decoding recs[i..]; More
\* is false at "]" and at the end of the input alike, and the token after
\* the last record is never read
DecodeLoop(recs, i, items) ==
  IF i > Len(recs) THEN <<TRUE, items>>
  ELSE IF recs[i] = "BAD" THEN <<FALSE, <<>>>>
  ELSE DecodeLoop(recs, i + 1, Append(items, toItemLight(recs[i])))

BuildLightIndex(body, t) ==
  IF body.top # "array" THEN EmptyResult
  ELSE LET d == DecodeLoop(body.recs, 1, <<>>) IN
       IF ~d[1] THEN EmptyResult
       ELSE LET gz == GzipOf(t, d[2]) IN
            [err |-> FALSE, Gzip |-> <<gz>>, Generated |-> t,
             Count |-> Len(d[2]), SHA256Hex |-> SHA256Hex(gz),
             SizeBytes |-> GzipLen(gz)]

\* the checks of ctx.Done() at which a cancellation can first be seen: the
\* k-th check runs before the k-th record is decoded
MaxCancel == 3

CancelPoints == 1..MaxCancel

RECURSIVE DecodeLoopOnce(_, _, _, _)
\* a loop that looks at the context before the first record only
DecodeLoopOnce(recs, i, items, k) ==
  IF i > Len(recs) THEN <<"nil", items>>
  ELSE IF i = 1 /\ k <= i THEN <<"canceled", <<>>>>
  ELSE IF recs[i] = "BAD" THEN <<"decode", <<>>>>
  ELSE DecodeLoopOnce(recs, i + 1, Append(items, toItemLight(recs[i])), k)

RECURSIVE DecodeLoopCtx(_, _, _, _)
\* the for dec.More() loop, lines 54-75, under a context that is cancelled
\* when its k-th check runs: <<error, items>> after decoding recs[i..]
DecodeLoopCtx(recs, i, items, k) ==
  IF i > Len(recs) THEN <<"nil", items>>
  ELSE IF k <= i THEN <<"canceled", <<>>>>
  ELSE IF recs[i] = "BAD" THEN <<"decode", <<>>>>
  ELSE DecodeLoopCtx(recs, i + 1, Append(items, toItemLight(recs[i])), k)

\* BuildLightIndex(ctx, src) under that context: <<error, Result>>
BuildLightIndexCtx(body, t, k) ==
  IF body.top # "array" THEN <<"want array", EmptyResult>>
  ELSE LET d == DecodeLoopCtx(body.recs, 1, <<>>, k) IN
       IF d[1] # "nil" THEN <<d[1], EmptyResult>>
       ELSE LET gz == GzipOf(t, d[2]) IN
            <<"nil", [err |-> FALSE, Gzip |-> <<gz>>, Generated |-> t,
                      Count |-> Len(d[2]), SHA256Hex |-> SHA256Hex(gz),
                      SizeBytes |-> GzipLen(gz)]>>

\* ------------------------------------------------- payloads of the store's tests
\* one chunk of opaque bytes
Chunk(b) == [raw |-> b]

\* the zero bytes of a hole, left by a write past the end of a file
Hole == [hole |-> TRUE]

DataA == <<Chunk("a1"), Chunk("a2")>>

DataB == <<Chunk("b1"), Chunk("b2"), Chunk("b3")>>

Payloads == {DataA, DataB}

\* an io.Reader over data; when fails, Read returns an error after the
\* first `after` chunks (the tests' badReader fails after none)
Readers ==
  {[data |-> d, fails |-> FALSE, after |-> Len(d)] : d \in Payloads}
  \cup UNION {{[data |-> d, fails |-> TRUE, after |-> k] : k \in 0..(Len(d) - 1)} :
              d \in Payloads}

NoReader == [data |-> <<>>, fails |-> FALSE, after |-> 0]

\* the Meta values the tests pass: ETag, GeneratedAt and SizeBytes set
TestMetas ==
  { [ZeroMeta EXCEPT !.ETag = <<"etag-123">>, !.GeneratedAt = Epoch, !.SizeBytes = 2],
    [ZeroMeta EXCEPT !.ETag = <<"etag-disk">>, !.GeneratedAt = Epoch + 1, !.SizeBytes = 99] }

\* the content of a JSON file that was created or truncated and not written
Truncated == [truncated |-> TRUE]

\* ------------------------------------------------- brew.UnifiedCache: data
\* defaultTTL = 1 * time.Hour, in hours
defaultTTL == 1

\* the latest reading of the cache's clock
MaxCacheClock == 4

\* the most brew commands in one behaviour
MaxCommands == 4

\* the first reading of the cache's clock
CacheEpoch == ZeroTime + 1

\* the goroutines that use the cache
Threads == {"t1", "t2"}

\* the one goroutine of a command-line invocation
SeqThreads == {"t1"}

PkgNames == {"foo", "bar"}

\* the zero PackageState
ZeroState ==
  [Installed |-> FALSE, InstalledVersion |-> "", LatestVersion |-> "",
   Outdated |-> FALSE, FetchedAt |-> ZeroTime]

\* the cache GetCache builds when there is no cache file
EmptyCache == [LastUpdated |-> ZeroTime, Packages |-> [n \in {} |-> ZeroState]]

\* what `brew list --formula -1` may answer: an error, or names
ListOutcomes ==
  {[err |-> TRUE, names |-> {}]} \cup
  {[err |-> FALSE, names |-> ns] : ns \in {{}, {"foo"}, {"foo", "bar"}}}

\* what `brew outdated --json=v2` may answer: an error, or formulae
OutdatedOutcomes ==
  { [err |-> TRUE, formulae |-> {}],
    [err |-> FALSE, formulae |-> {}],
    [err |-> FALSE, formulae |->
       {[Name |-> "foo", InstalledVersions |-> <<"1.0">>, CurrentVersion |-> "2.0"]}],
    [err |-> FALSE, formulae |->
       {[Name |-> "bar", InstalledVersions |-> <<>>, CurrentVersion |-> "2.0"]}] }

\* the largest number of names one brew info call is given
maxBatchSize == 50

\* the calls a behaviour makes on the cache besides Refresh and the reads
MaxCacheCalls == 2

\* the versions brew reports and the callers pass; manager.go passes ""
Versions == {"", "1.0", "2.0"}

\* one name more than a batch holds
BigNames ==
  [i \in 1..(maxBatchSize + 1) |->
     IF i = 1 THEN "foo" ELSE IF i = 2 THEN "bar" ELSE "p" \o ToString(i)]

\* the name lists RefreshVersions and Invalidate are called with
NameLists == {<<>>, <<"foo">>, <<"foo", "bar", "foo">>, BigNames}

\* what brew info reports of a formula: its installed versions and its
\* stable version
InfoShapes == {<< <<>>, "2.0" >>, << <<"1.0">>, "2.0" >>, << <<"2.0", "1.0">>, "2.0" >>}

\* a map without entries
NoPackages == [n \in {} |-> ZeroState]

\* the answers of a query that was not run
NoList == [err |-> TRUE, names |-> {}]

NoOutdated == [err |-> TRUE, formulae |-> {}]

\* os.WriteFile succeeds, fails before it truncates, or fails after
SaveOutcomes == {"ok", "notOpened", "truncated"}

\* a cache file that does not decode
CorruptFile == [corrupt |-> TRUE]

\* a cache file os.ReadFile cannot read (no permission, a directory)
UnreadableFile == [unreadable |-> TRUE]

\* a cache file that is valid JSON but holds a string where the outdated
\* field of foo expects a bool: json.Unmarshal skips that field, decodes
\* the others and returns an UnmarshalTypeError
MistypedFile ==
  [last_updated |-> CacheEpoch,
   packages |-> [n \in {"foo"} |-> [installed |-> TRUE, fetched_at |-> CacheEpoch]],
   mistyped |-> TRUE]

\* what may have happened to the cache file between two runs
DamagedFiles == {<<>>, <<CorruptFile>>, <<UnreadableFile>>, <<MistypedFile>>}

\* a call on the cache: the operation, its arguments, what it saw when it
\* began, whether its refresh ran the queries, and what it returned
IdleCall ==
  [pc |-> "idle", op |-> "none", name |-> "", force |-> FALSE, at |-> ZeroTime,
   before |-> [cache |-> EmptyCache, cacheFile |-> <<>>, commands |-> <<>>],
   ran |-> FALSE, listErr |-> FALSE, rerr |-> FALSE, ret |-> "none",
   ans |-> FALSE, state |-> ZeroState, found |-> FALSE,
   lst |-> NoList, od |-> NoOutdated, sv |-> "ok", now |-> ZeroTime,
   version |-> "", names |-> <<>>, infos |-> <<>>,
   todo |-> {}, view |-> NoPackages, gens |-> {},
   installed |-> {}, outdated |-> NoPackages]

\* ------------------------------------------------------------------ state
VARIABLES
  clock,      \* time.Now()
  indexFile,  \* index-light.json.gz in the data directory
  metaFile,   \* meta.json in the data directory
  hot,        \* per process: FS.hotData, hotETag, hotGenAt, hotSize
  run,        \* per process: the locals of its RefreshIndex call
  lastFailure, \* the latest call that failed with a catalog present, and its now
  calls,      \* RefreshIndex calls begun so far
  tmpIndex,   \* index-light.json.gz.tmp in the data directory
  tmpMeta,    \* meta.json.tmp in the data directory
  lastWrite,  \* the arguments of the latest WriteIndexGZ call that returned nil
  cacheClock, \* time.Now() as the brew package reads it, in hours
  cache,      \* UnifiedCache: LastUpdated and Packages
  cacheFile,  \* unified_cache.json
  commands,   \* the brew commands the runner has run
  cacheCalls, \* the number of calls that write the cache or construct it
  cx          \* per thread: its call on the cache

\* the temp files and the history of the store's own calls
storeVars == <<tmpIndex, tmpMeta, lastWrite>>

\* the package-state cache and its surroundings
cacheVars == <<cacheClock, cache, cacheFile, commands, cacheCalls, cx>>

\* the catalog side: store, scheduler and their history
catalogVars == <<clock, indexFile, metaFile, hot, run, lastFailure, calls, storeVars>>

vars == <<clock, indexFile, metaFile, hot, run, lastFailure, calls, storeVars, cacheVars>>

EmptyHot == [hotData |-> <<>>, hotETag |-> <<>>, hotGenAt |-> ZeroTime, hotSize |-> 0]

IdleRun ==
  [pc |-> "idle", call |-> 0, refresh |-> FALSE, now |-> ZeroTime, present |-> FALSE,
   meta |-> ZeroMeta, prevETag |-> "", res |-> NoResult, build |-> EmptyResult,
   m |-> ZeroMeta, data |-> <<>>, path |-> "none", ret |-> "none",
   sent |-> <<>>, metaWrites |-> 0, blobWrites |-> 0,
   snap |-> [indexFile |-> <<>>, metaFile |-> <<>>, hot |-> EmptyHot],
   op |-> "none", reader |-> NoReader, wmeta |-> ZeroMeta,
   off |-> 0, fd |-> "closed", mfd |-> "closed",
   cancelAt |-> 0, berr |-> "none"]

\* ------------------------------------------------------------- store.FS reads
GetHot(p) == hot[p]

\* ReadMeta of a given meta.json: <<err, meta>>; a missing file is an
\* error, and so is one that does not decode
ReadMetaOf(mf) ==
  IF mf = <<>> THEN <<TRUE, ZeroMeta>>
  ELSE IF mf[1] = Truncated THEN <<TRUE, ZeroMeta>>
  ELSE <<FALSE, mf[1]>>

\* ReadMeta of the data directory
ReadMeta == ReadMetaOf(metaFile)

\* OpenIndexGZ over a given hot cache and data directory: the hot cache
\* first, then the file enriched with the metadata
OpenFrom(h, idx, mf) ==
  IF h.hotData # <<>>
  THEN [err |-> FALSE, data |-> h.hotData, etag |-> h.hotETag,
        generatedAt |-> h.hotGenAt, size |-> h.hotSize]
  ELSE IF idx = <<>>
  THEN [err |-> TRUE, data |-> <<>>, etag |-> <<>>, generatedAt |-> ZeroTime, size |-> 0]
  ELSE [err |-> FALSE, data |-> idx, etag |-> ReadMetaOf(mf)[2].ETag,
        generatedAt |-> ReadMetaOf(mf)[2].GeneratedAt, size |-> GzipLen(idx[1])]

OpenIndexGZ(p) == OpenFrom(hot[p], indexFile, metaFile)

\* ------------------------------------------------------------------- Init
Init ==
  /\ clock = Epoch
  /\ indexFile = <<>>
  /\ metaFile \in {<<>>, <<DanglingMeta>>}
  /\ hot = [p \in Procs |-> EmptyHot]
  /\ run = [p \in Procs |-> IdleRun]
  /\ lastFailure = [call |-> 0, at |-> ZeroTime]
  /\ calls = 0
  /\ tmpIndex = <<>>
  /\ tmpMeta = <<>>
  /\ lastWrite = <<>>
  /\ cacheClock = CacheEpoch
  /\ cache = EmptyCache
  /\ cacheFile = <<>>
  /\ commands = <<>>
  /\ cacheCalls = 0
  /\ cx = [t \in Threads |-> IdleCall]

\* ------------------------------------------------------------ scheduler steps
\* the call returns v; the locals of its callees are gone
Returned(r, v) ==
  [r EXCEPT !.pc = "idle", !.ret = v, !.m = ZeroMeta, !.data = <<>>,
            !.build = EmptyResult]

\* RefreshIndex, lines 23-27: now := time.Now().UTC(); GetHot; present
Begin(p, refresh) ==
  /\ run[p].pc = "idle"
  /\ calls < MaxCalls
  /\ calls' = calls + 1
  /\ run' = [run EXCEPT ![p] =
       [IdleRun EXCEPT !.pc = "gate", !.call = calls + 1, !.refresh = refresh, !.now = clock,
                       !.present = (GetHot(p).hotData # <<>>),
                       !.snap = [indexFile |-> indexFile, metaFile |-> metaFile,
                                 hot |-> hot[p]]]]
  /\ UNCHANGED <<clock, indexFile, metaFile, hot, lastFailure, storeVars, cacheVars>>

\* the later of LastChecked and LastSuccess
LastOf(meta) ==
  IF meta.LastSuccess > meta.LastChecked THEN meta.LastSuccess ELSE meta.LastChecked

\* the gate with its comparison turned around
SkipsInverted(present, meta, now, refresh) ==
  /\ present
  /\ LastOf(meta) # ZeroTime
  /\ now - LastOf(meta) > RefreshInterval
  /\ ~refresh

\* the gate on the last success alone
SkipsOnSuccess(present, meta, now, refresh) ==
  /\ present
  /\ meta.LastSuccess # ZeroTime
  /\ now - meta.LastSuccess < RefreshInterval
  /\ ~refresh

\* the 24h gate
Skips(present, meta, now, refresh) ==
  /\ present
  /\ LastOf(meta) # ZeroTime
  /\ now - LastOf(meta) < RefreshInterval
  /\ ~refresh

\* the stored ETag whether or not a catalog is present
ChooseETagAlways(present, meta) == meta.UpstreamETag

\* the ETag to revalidate against
ChooseETag(present, meta) ==
  IF present /\ meta.UpstreamETag # "" THEN meta.UpstreamETag ELSE ""

\* RefreshIndex, lines 28-45: ReadMeta, the gate, the choice of prevETag
Gate(p) ==
  /\ run[p].pc = "gate"
  /\ LET r == run[p]
         meta == ReadMeta[2] IN
     run' = [run EXCEPT ![p] =
       IF Skips(r.present, meta, r.now, r.refresh)
       THEN Returned([r EXCEPT !.meta = meta, !.path = "skip"], "nil")
       ELSE [r EXCEPT !.meta = meta, !.pc = "fetch",
                      !.prevETag = ChooseETag(r.present, meta)]]
  /\ UNCHANGED <<clock, indexFile, metaFile, hot, lastFailure, calls, storeVars, cacheVars>>

\* the If-None-Match header of the request: <<>> when it is not set
prepareRequest(prevETag) == IF prevETag # "" THEN <<prevETag>> ELSE <<>>

\* where the first fetch's outcome leads
AfterFetch(r, out) ==
  IF out.err THEN [r EXCEPT !.path = "fetcherr", !.pc = "umRead"]
  ELSE IF out.Status = 304 THEN [r EXCEPT !.path = "304", !.pc = "umRead"]
  ELSE IF out.Status = 200 THEN [r EXCEPT !.path = "200", !.pc = "build"]
  ELSE [r EXCEPT !.path = "other", !.pc = "umRead"]

\* RefreshIndex, lines 48-80: FetchWithETag(prevETag) and the dispatch
Fetch(p) ==
  /\ run[p].pc = "fetch"
  /\ \E out \in FetchOutcomes :
       run' = [run EXCEPT ![p] =
         AfterFetch([run[p] EXCEPT !.res = out,
                                   !.sent = Append(@, prepareRequest(run[p].prevETag))],
                    out)]
  /\ UNCHANGED <<clock, indexFile, metaFile, hot, lastFailure, calls, storeVars, cacheVars>>

\* what follows updateMetaLastChecked on each path
AfterUpdateMeta(r) ==
  IF r.path = "304"
  THEN IF r.present THEN Returned(r, "nil") ELSE [r EXCEPT !.pc = "refetch"]
  ELSE Returned(r, "err")

\* the failed call the 24h gate has to remember
FailureOf(r, old) ==
  IF r.pc = "idle" /\ r.ret = "err" /\ r.present /\ r.path \in {"fetcherr", "other"}
  THEN [call |-> r.call, at |-> r.now] ELSE old

\* updateMetaLastChecked, lines 121-124: ReadMeta; give up on an error
UpdateMetaRead(p) ==
  /\ run[p].pc = "umRead"
  /\ LET r == run[p]
         nr == IF ReadMeta[1] THEN AfterUpdateMeta(r)
               ELSE [r EXCEPT !.pc = "umWrite", !.m = ReadMeta[2]] IN
     /\ run' = [run EXCEPT ![p] = nr]
     /\ lastFailure' = FailureOf(nr, lastFailure)
  /\ UNCHANGED <<clock, indexFile, metaFile, hot, calls, storeVars, cacheVars>>

\* a touch that also counts as a success
TouchedMetaSuccess(m, ts) == [m EXCEPT !.LastChecked = ts, !.LastSuccess = ts]

\* a touch that writes fresh metadata instead of updating what it read
TouchedMetaFresh(m, ts) == [ZeroMeta EXCEPT !.LastChecked = ts]

\* the metadata updateMetaLastChecked writes
TouchedMeta(m, ts) == [m EXCEPT !.LastChecked = ts]

\* updateMetaLastChecked, lines 125-126: m.LastChecked = ts; WriteMeta
UpdateMetaWrite(p) ==
  /\ run[p].pc = "umWrite"
  /\ LET r == run[p]
         nr == AfterUpdateMeta([r EXCEPT !.metaWrites = @ + 1]) IN
     /\ metaFile' = <<TouchedMeta(r.m, r.now)>>
     /\ run' = [run EXCEPT ![p] = nr]
     /\ lastFailure' = FailureOf(nr, lastFailure)
  /\ UNCHANGED <<clock, indexFile, hot, calls, storeVars, cacheVars>>

\* a retry that is repeated for as long as upstream does not answer 200
AfterRefetchRetry(r, out) ==
  IF out.err THEN Returned(r, "err")
  ELSE IF out.Status # 200 THEN [r EXCEPT !.pc = "refetch"]
  ELSE [r EXCEPT !.pc = "build"]

\* where the retry's outcome leads
AfterRefetch(r, out) ==
  IF out.err THEN Returned(r, "err")
  ELSE IF out.Status # 200 THEN Returned(r, "err")
  ELSE [r EXCEPT !.pc = "build"]

\* RefreshIndex, lines 63-72: the refetch without ETag
Refetch(p) ==
  /\ run[p].pc = "refetch"
  /\ \E out \in FetchOutcomes :
       run' = [run EXCEPT ![p] =
         AfterRefetch([run[p] EXCEPT !.res = out,
                                     !.sent = Append(@, prepareRequest(""))],
                      out)]
  /\ UNCHANGED <<clock, indexFile, metaFile, hot, lastFailure, calls, storeVars, cacheVars>>

\* persistBuild, lines 90-95: BuildLightIndex(res.Body)
Build(p) ==
  /\ run[p].pc = "build"
  /\ LET r == run[p]
         b == BuildLightIndex(r.res.Body, clock) IN
     run' = [run EXCEPT ![p] =
       IF b.err THEN Returned(r, "err")
       ELSE [r EXCEPT !.build = b, !.pc = "wBlob"]]
  /\ UNCHANGED <<clock, indexFile, metaFile, hot, lastFailure, calls, storeVars, cacheVars>>

\* persistBuild, lines 90-95, when the context is cancelled during the build
BuildCanceled(p) ==
  /\ run[p].pc = "build"
  /\ \E k \in CancelPoints :
       LET r == [run[p] EXCEPT !.cancelAt = k]
           b == BuildLightIndexCtx(r.res.Body, clock, k) IN
       run' = [run EXCEPT ![p] =
         IF b[1] # "nil" THEN Returned([r EXCEPT !.berr = b[1]], "err")
         ELSE [r EXCEPT !.berr = "nil", !.build = b[2], !.pc = "wBlob"]]
  /\ UNCHANGED <<clock, indexFile, metaFile, hot, lastFailure, calls, storeVars, cacheVars>>

\* metadata that forgets the response's ETag
NewMetaNoUpstream(build, res, now) ==
  [ETag |-> <<"sha256:", build.SHA256Hex>>, GeneratedAt |-> build.Generated,
   Count |-> build.Count, SizeBytes |-> build.SizeBytes,
   SHA256 |-> build.SHA256Hex, UpstreamETag |-> "",
   LastSuccess |-> now, LastChecked |-> now]

\* persistBuild, lines 99-108
NewMeta(build, res, now) ==
  [ETag |-> <<"sha256:", build.SHA256Hex>>, GeneratedAt |-> build.Generated,
   Count |-> build.Count, SizeBytes |-> build.SizeBytes,
   SHA256 |-> build.SHA256Hex, UpstreamETag |-> res.ETag,
   LastSuccess |-> now, LastChecked |-> now]

\* WriteIndexGZ: WriteFileAtomic renames the temp file over index-light.json.gz
WriteBlob(p) ==
  /\ run[p].pc = "wBlob"
  /\ indexFile' = run[p].build.Gzip
  /\ run' = [run EXCEPT ![p] = [@ EXCEPT !.pc = "wMeta", !.blobWrites = @ + 1]]
  /\ UNCHANGED <<clock, metaFile, hot, lastFailure, calls, storeVars, cacheVars>>

\* WriteIndexGZ: WriteJSONAtomic renames the temp file over meta.json
WriteMetaFile(p) ==
  /\ run[p].pc = "wMeta"
  /\ metaFile' = <<NewMeta(run[p].build, run[p].res, run[p].now)>>
  /\ run' = [run EXCEPT ![p] = [@ EXCEPT !.pc = "loadData", !.metaWrites = @ + 1]]
  /\ UNCHANGED <<clock, indexFile, hot, lastFailure, calls, storeVars, cacheVars>>

\* WriteIndexGZ, lines 98-100: WriteJSONAtomic fails before its rename
\* (the temp file cannot be created or written); the blob is already
\* renamed, and the error is returned without a reload of the hot cache
WriteMetaFails(p) ==
  /\ run[p].pc = "wMeta"
  /\ run' = [run EXCEPT ![p] = Returned(@, "err")]
  /\ UNCHANGED <<clock, indexFile, metaFile, hot, lastFailure, calls, storeVars, cacheVars>>

\* the end of loadHotFromDisk for its caller: NewFS ignores the error,
\* WriteIndexGZ returns it and persistBuild wraps it
AfterLoad(r, loadErr) ==
  IF r.path = "boot" THEN [r EXCEPT !.pc = "idle"]
  ELSE Returned(r, IF loadErr THEN "err" ELSE "nil")

\* the history of the store's own calls: a WriteIndexGZ call made on the
\* store directly has returned nil
WrittenBy(r, old) ==
  IF r.pc = "idle" /\ r.path = "direct" /\ r.op = "WriteIndexGZ" /\ r.ret = "nil"
  THEN <<[data |-> r.reader.data, meta |-> r.wmeta]>> ELSE old

\* loadHotFromDisk, lines 133-140: os.ReadFile(indexPath)
LoadHotData(p) ==
  /\ run[p].pc = "loadData"
  /\ LET nr == IF indexFile = <<>> THEN AfterLoad(run[p], FALSE)
               ELSE [run[p] EXCEPT !.pc = "loadMeta", !.data = indexFile] IN
     /\ run' = [run EXCEPT ![p] = nr]
     /\ lastWrite' = WrittenBy(nr, lastWrite)
  /\ UNCHANGED <<clock, indexFile, metaFile, hot, lastFailure, calls, tmpIndex, tmpMeta, cacheVars>>

\* a reload that sets the metadata fields and leaves the bytes out
HotOfNoData(data, m) ==
  [hotData |-> <<>>, hotETag |-> m.ETag, hotGenAt |-> m.GeneratedAt,
   hotSize |-> GzipLen(data[1])]

\* a reload that takes the size from the metadata
HotOfMetaSize(data, m) ==
  [hotData |-> data, hotETag |-> m.ETag, hotGenAt |-> m.GeneratedAt,
   hotSize |-> m.SizeBytes]

\* the hot fields loadHotFromDisk sets
HotOf(data, m) ==
  [hotData |-> data, hotETag |-> m.ETag, hotGenAt |-> m.GeneratedAt,
   hotSize |-> GzipLen(data[1])]

\* loadHotFromDisk, lines 141-152: ReadMeta, then the swap of the hot fields
LoadHotMeta(p) ==
  /\ run[p].pc = "loadMeta"
  /\ hot' = IF ReadMeta[1] THEN hot
            ELSE [hot EXCEPT ![p] = HotOf(run[p].data, ReadMeta[2])]
  /\ LET nr == AfterLoad(run[p], ReadMeta[1]) IN
     /\ run' = [run EXCEPT ![p] = nr]
     /\ lastWrite' = WrittenBy(nr, lastWrite)
  /\ UNCHANGED <<clock, indexFile, metaFile, lastFailure, calls, tmpIndex, tmpMeta, cacheVars>>

\* NewFS: a new process, with an empty hot cache that it loads from disk
NewFS(p) ==
  /\ run[p].pc = "idle"
  /\ hot' = [hot EXCEPT ![p] = EmptyHot]
  /\ run' = [run EXCEPT ![p] = [IdleRun EXCEPT !.pc = "loadData", !.path = "boot"]]
  /\ UNCHANGED <<clock, indexFile, metaFile, lastFailure, calls, storeVars, cacheVars>>

\* ------------------------------------------------- the store's writes, step by step
\* a Write of chunk x at offset off of a file whose bytes are c
WriteAt(c, off, x) ==
  IF off < Len(c) THEN [c EXCEPT ![off + 1] = x]
  ELSE c \o [i \in 1..(off - Len(c)) |-> Hole] \o <<x>>

\* what an open descriptor refers to once its file was renamed over the
\* final path: the file at the final path, or one without a name
AfterRenameFd(fd) ==
  IF fd = "tmp" THEN "final" ELSE IF fd = "final" THEN "lost" ELSE fd

\* what an open descriptor refers to once the temp name was removed
AfterRemoveFd(fd) == IF fd = "tmp" THEN "lost" ELSE fd

\* a call of WriteIndexGZ(r, meta) made on the store directly
WriteIndexGZ(p) ==
  /\ run[p].pc = "idle"
  /\ run[p].path # "crashed"
  /\ \E r \in Readers, meta \in TestMetas :
       run' = [run EXCEPT ![p] =
         [IdleRun EXCEPT !.pc = "tOpen", !.path = "direct", !.op = "WriteIndexGZ",
                         !.reader = r, !.wmeta = meta,
                         !.snap = [indexFile |-> indexFile, metaFile |-> metaFile,
                                   hot |-> hot[p]]]]
  /\ UNCHANGED <<clock, indexFile, metaFile, hot, lastFailure, calls, storeVars, cacheVars>>

\* a call of WriteMeta(m) made on the store directly
WriteMeta(p) ==
  /\ run[p].pc = "idle"
  /\ run[p].path # "crashed"
  /\ \E meta \in TestMetas :
       run' = [run EXCEPT ![p] =
         [IdleRun EXCEPT !.pc = "mOpen", !.path = "direct", !.op = "WriteMeta",
                         !.wmeta = meta,
                         !.snap = [indexFile |-> indexFile, metaFile |-> metaFile,
                                   hot |-> hot[p]]]]
  /\ UNCHANGED <<clock, indexFile, metaFile, hot, lastFailure, calls, storeVars, cacheVars>>

\* WriteFileAtomic, line 188: OpenFile(tmpPath, O_CREATE|O_WRONLY|O_TRUNC)
TmpOpen(p) ==
  /\ run[p].pc = "tOpen"
  /\ tmpIndex' = << <<>> >>
  /\ run' = [run EXCEPT ![p] = [@ EXCEPT !.pc = "tCopy", !.fd = "tmp", !.off = 0]]
  /\ UNCHANGED <<clock, indexFile, metaFile, hot, lastFailure, calls, tmpMeta, lastWrite, cacheVars>>

\* a copy loop that writes to the final path
CopyTargetFinal(fd) == "final"

\* the file a descriptor's writes land in
CopyTarget(fd) == fd

\* WriteFileAtomic, lines 192-194: io.Copy writes one chunk, or ends on the
\* reader's error or EOF, followed by Sync and Close
TmpCopy(p) ==
  /\ run[p].pc = "tCopy"
  /\ LET r == run[p]
         x == r.reader.data[r.off + 1] IN
     IF r.off = r.reader.after
     THEN /\ run' = [run EXCEPT ![p] =
                [r EXCEPT !.fd = "closed",
                          !.pc = IF r.reader.fails THEN "tRemove" ELSE "tRename"]]
          /\ UNCHANGED <<indexFile, tmpIndex>>
     ELSE /\ run' = [run EXCEPT ![p] = [r EXCEPT !.off = @ + 1]]
          /\ tmpIndex' = IF CopyTarget(r.fd) = "tmp"
                         THEN <<WriteAt(tmpIndex[1], r.off, x)>> ELSE tmpIndex
          /\ indexFile' = IF CopyTarget(r.fd) = "final"
                          THEN <<WriteAt(IF indexFile = <<>> THEN <<>> ELSE indexFile[1],
                                         r.off, x)>>
                          ELSE indexFile
  /\ UNCHANGED <<clock, metaFile, hot, lastFailure, calls, tmpMeta, lastWrite, cacheVars>>

\* an error path that leaves the temp file where it is
RemovedTmpKept(tmp) == tmp

\* os.Remove(tmpPath)
RemovedTmp(tmp) == <<>>

\* WriteFileAtomic, lines 196-199: copyErr: Remove(tmpPath), return copyErr
TmpRemove(p) ==
  /\ run[p].pc = "tRemove"
  /\ tmpIndex' = RemovedTmp(tmpIndex)
  /\ run' = [q \in Procs |->
       IF q = p THEN Returned(run[p], "err")
       ELSE IF tmpIndex' = <<>> THEN [run[q] EXCEPT !.fd = AfterRemoveFd(@)]
       ELSE run[q]]
  /\ UNCHANGED <<clock, indexFile, metaFile, hot, lastFailure, calls, tmpMeta, lastWrite, cacheVars>>

\* WriteFileAtomic, lines 210-215: Rename(tmpPath, finalPath); when the temp
\* file is gone Rename fails, Remove finds nothing and the error is returned
TmpRename(p) ==
  /\ run[p].pc = "tRename"
  /\ IF tmpIndex = <<>>
     THEN /\ run' = [run EXCEPT ![p] = Returned(@, "err")]
          /\ UNCHANGED <<indexFile, tmpIndex>>
     ELSE /\ indexFile' = tmpIndex
          /\ tmpIndex' = <<>>
          /\ run' = [q \in Procs |->
               IF q = p THEN [run[p] EXCEPT !.pc = "mOpen", !.blobWrites = @ + 1]
               ELSE [run[q] EXCEPT !.fd = AfterRenameFd(@)]]
  /\ UNCHANGED <<clock, metaFile, hot, lastFailure, calls, tmpMeta, lastWrite, cacheVars>>

\* WriteJSONAtomic, lines 219-220: OpenFile(path + ".tmp", O_CREATE|O_WRONLY|O_TRUNC)
MetaOpen(p) ==
  /\ run[p].pc = "mOpen"
  /\ tmpMeta' = <<Truncated>>
  /\ run' = [run EXCEPT ![p] = [@ EXCEPT !.pc = "mEncode", !.mfd = "tmp"]]
  /\ UNCHANGED <<clock, indexFile, metaFile, hot, lastFailure, calls, tmpIndex, lastWrite, cacheVars>>

\* WriteJSONAtomic, lines 224-238: Encode writes the document in one Write
\* at offset 0; Sync; Close
MetaEncode(p) ==
  /\ run[p].pc = "mEncode"
  /\ tmpMeta' = IF run[p].mfd = "tmp" THEN <<run[p].wmeta>> ELSE tmpMeta
  /\ metaFile' = IF run[p].mfd = "final" THEN <<run[p].wmeta>> ELSE metaFile
  /\ run' = [run EXCEPT ![p] = [@ EXCEPT !.pc = "mRename", !.mfd = "closed"]]
  /\ UNCHANGED <<clock, indexFile, hot, lastFailure, calls, tmpIndex, lastWrite, cacheVars>>

\* a WriteIndexGZ that returns without reloading the hot cache
AfterMetaWriteNoReload(r) == Returned(r, "nil")

\* after WriteJSONAtomic: WriteMeta returns, WriteIndexGZ goes on to
\* loadHotFromDisk
AfterMetaWrite(r) ==
  IF r.op = "WriteMeta" THEN Returned(r, "nil") ELSE [r EXCEPT !.pc = "loadData"]

\* WriteJSONAtomic, lines 239-243: Rename(tmp, path)
MetaRename(p) ==
  /\ run[p].pc = "mRename"
  /\ IF tmpMeta = <<>>
     THEN /\ run' = [run EXCEPT ![p] = Returned(@, "err")]
          /\ UNCHANGED <<metaFile, tmpMeta>>
     ELSE /\ metaFile' = tmpMeta
          /\ tmpMeta' = <<>>
          /\ run' = [q \in Procs |->
               IF q = p THEN AfterMetaWrite([run[p] EXCEPT !.metaWrites = @ + 1])
               ELSE [run[q] EXCEPT !.mfd = AfterRenameFd(@)]]
  /\ lastWrite' = WrittenBy(run'[p], lastWrite)
  /\ UNCHANGED <<clock, indexFile, hot, lastFailure, calls, tmpIndex, cacheVars>>

\* ClearHotCacheForTest
ClearHotCacheForTest(p) ==
  /\ run[p].pc = "idle"
  /\ run[p].path # "crashed"
  /\ hot[p] # EmptyHot
  /\ hot' = [hot EXCEPT ![p] = EmptyHot]
  /\ run' = [run EXCEPT ![p] = [IdleRun EXCEPT !.path = "clear"]]
  /\ UNCHANGED <<clock, indexFile, metaFile, lastFailure, calls, storeVars, cacheVars>>

\* the process dies inside a call on the store: its memory and its
\* descriptors are gone, the data directory stays as it is
Crash(p) ==
  /\ run[p].path = "direct"
  /\ run[p].pc # "idle"
  /\ hot' = [hot EXCEPT ![p] = EmptyHot]
  /\ run' = [run EXCEPT ![p] =
       [@ EXCEPT !.pc = "idle", !.path = "crashed", !.fd = "closed", !.mfd = "closed"]]
  /\ UNCHANGED <<clock, indexFile, metaFile, lastFailure, calls, storeVars, cacheVars>>

\* the steps inside WriteIndexGZ and WriteMeta
InWrite(p) ==
  \/ TmpOpen(p)
  \/ TmpCopy(p)
  \/ TmpRemove(p)
  \/ TmpRename(p)
  \/ MetaOpen(p)
  \/ MetaEncode(p)
  \/ MetaRename(p)
  \/ LoadHotData(p)
  \/ LoadHotMeta(p)

\* the wall clock advances
Tick ==
  /\ clock < MaxClock
  /\ clock' = clock + 1
  /\ UNCHANGED <<indexFile, metaFile, hot, run, lastFailure, calls, storeVars, cacheVars>>

\* one call of RefreshIndex with either value of the force flag
RefreshIndex(p) == \E refresh \in BOOLEAN : Begin(p, refresh)

\* the steps inside a call, and inside the load at boot
InCall(p) ==
  \/ Gate(p)
  \/ Fetch(p)
  \/ UpdateMetaRead(p)
  \/ UpdateMetaWrite(p)
  \/ Refetch(p)
  \/ Build(p)
  \/ WriteBlob(p)
  \/ WriteMetaFile(p)
  \/ LoadHotData(p)
  \/ LoadHotMeta(p)

\* one process at a time: its calls follow one another, and it may restart
Next == Tick \/ \E p \in SeqProcs : (RefreshIndex(p) \/ InCall(p) \/ NewFS(p))

Spec == Init /\ [][Next]_vars

\* a command-line invocation refreshes the index once (Searcher.Execute)
Invocation(p) ==
  /\ run[p].path = "none"
  /\ RefreshIndex(p)

\* a call that has begun keeps running
FairSpec == Spec /\ \A p \in SeqProcs : WF_vars(InCall(p))

\* two invocations on the same data directory, overlapping in time
NextConc == Tick \/ \E p \in Procs : (Invocation(p) \/ InCall(p))

SpecConc == Init /\ [][NextConc]_vars

\* one process at a time, whose caller may cancel the context during a build
NextCancel == Next \/ \E p \in SeqProcs : BuildCanceled(p)

SpecCancel == Init /\ [][NextCancel]_vars

\* one process at a time, on a disk that may refuse the metadata write
NextWriteErr == Next \/ \E p \in SeqProcs : WriteMetaFails(p)

SpecWriteErr == Init /\ [][NextWriteErr]_vars

\* one process using its store directly, as the store's tests do
NextStore ==
  \E p \in SeqProcs :
    \/ WriteIndexGZ(p)
    \/ WriteMeta(p)
    \/ InWrite(p)
    \/ ClearHotCacheForTest(p)
    \/ NewFS(p)

SpecStore == Init /\ [][NextStore]_vars

\* the same, with a crash possible at every step of a write
NextCrash == NextStore \/ \E p \in SeqProcs : Crash(p)

SpecCrash == Init /\ [][NextCrash]_vars

\* two processes, one WriteIndexGZ call each on the same data directory
NextStoreConc ==
  \E p \in Procs : ((run[p].path = "none" /\ WriteIndexGZ(p)) \/ InWrite(p))

SpecStoreConc == Init /\ [][NextStoreConc]_vars

\* ------------------------------------------------- brew.UnifiedCache: steps
\* a staleness test that is off by one at the boundary
needsRefreshAtTTL(c, now) == c.LastUpdated = ZeroTime \/ now - c.LastUpdated >= defaultTTL

\* needsRefreshLocked
needsRefreshLocked(c, now) == c.LastUpdated = ZeroTime \/ now - c.LastUpdated > defaultTTL

\* Refresh, step 3: the formulae of the outdated answer that have an
\* installed version (none when the query failed)
OutdatedMap(od) ==
  IF od.err THEN {} ELSE {f \in od.formulae : Len(f.InstalledVersions) > 0}

\* a Refresh that forgets the versions of the previous snapshot
RefreshedStateFresh(c, name, om, now) ==
  IF \E f \in om : f.Name = name
  THEN LET f == CHOOSE g \in om : g.Name = name IN
       [Installed |-> TRUE, InstalledVersion |-> f.InstalledVersions[1],
        LatestVersion |-> f.CurrentVersion, Outdated |-> TRUE, FetchedAt |-> now]
  ELSE [Installed |-> TRUE, InstalledVersion |-> "", LatestVersion |-> "",
        Outdated |-> FALSE, FetchedAt |-> now]

\* Refresh, step 4: the state of one installed package
RefreshedState(c, name, om, now) ==
  IF \E f \in om : f.Name = name
  THEN LET f == CHOOSE g \in om : g.Name = name IN
       [Installed |-> TRUE, InstalledVersion |-> f.InstalledVersions[1],
        LatestVersion |-> f.CurrentVersion, Outdated |-> TRUE, FetchedAt |-> now]
  ELSE [Installed |-> TRUE,
        InstalledVersion |-> IF name \in DOMAIN c.Packages
                             THEN c.Packages[name].InstalledVersion ELSE "",
        LatestVersion |-> IF name \in DOMAIN c.Packages
                          THEN c.Packages[name].LatestVersion ELSE "",
        Outdated |-> FALSE, FetchedAt |-> now]

\* Refresh, step 4: the new snapshot
Refreshed(c, names, od, now) ==
  [LastUpdated |-> now,
   Packages |-> [n \in names |-> RefreshedState(c, n, OutdatedMap(od), now)]]

\* a Refresh that takes a failed list query for an empty list
RefreshOutcomeLossy(c, force, now, lst, od) ==
  IF ~force /\ ~needsRefreshLocked(c, now)
  THEN [ran |-> FALSE, listErr |-> FALSE, cache |-> c, cmds |-> <<>>, save |-> FALSE]
  ELSE IF lst.err
  THEN [ran |-> TRUE, listErr |-> TRUE, cache |-> Refreshed(c, {}, od, now),
        cmds |-> <<"list">>, save |-> FALSE]
  ELSE [ran |-> TRUE, listErr |-> FALSE, cache |-> Refreshed(c, lst.names, od, now),
        cmds |-> <<"list", "outdated">>, save |-> TRUE]

\* a Refresh for which a failed outdated query is fatal too
RefreshOutcomeStrict(c, force, now, lst, od) ==
  IF ~force /\ ~needsRefreshLocked(c, now)
  THEN [ran |-> FALSE, listErr |-> FALSE, cache |-> c, cmds |-> <<>>, save |-> FALSE]
  ELSE IF lst.err \/ od.err
  THEN [ran |-> TRUE, listErr |-> TRUE, cache |-> c, cmds |-> <<"list">>, save |-> FALSE]
  ELSE [ran |-> TRUE, listErr |-> FALSE, cache |-> Refreshed(c, lst.names, od, now),
        cmds |-> <<"list", "outdated">>, save |-> TRUE]

\* a Refresh that does not test the staleness again under its lock
RefreshOutcomeUnchecked(c, force, now, lst, od) ==
  IF lst.err
  THEN [ran |-> TRUE, listErr |-> TRUE, cache |-> c, cmds |-> <<"list">>, save |-> FALSE]
  ELSE [ran |-> TRUE, listErr |-> FALSE, cache |-> Refreshed(c, lst.names, od, now),
        cmds |-> <<"list", "outdated">>, save |-> TRUE]

\* Refresh under its lock, up to the save: whether it ran the queries,
\* the snapshot it leaves and the commands it ran
RefreshOutcome(c, force, now, lst, od) ==
  IF ~force /\ ~needsRefreshLocked(c, now)
  THEN [ran |-> FALSE, listErr |-> FALSE, cache |-> c, cmds |-> <<>>, save |-> FALSE]
  ELSE IF lst.err
  THEN [ran |-> TRUE, listErr |-> TRUE, cache |-> c, cmds |-> <<"list">>, save |-> FALSE]
  ELSE [ran |-> TRUE, listErr |-> FALSE, cache |-> Refreshed(c, lst.names, od, now),
        cmds |-> <<"list", "outdated">>, save |-> TRUE]

\* an encoding that writes only the two fields without omitempty
MarshalStateBare(st) ==
  [installed |-> st.Installed, fetched_at |-> st.FetchedAt]

\* json.Marshal of a PackageState: installed and fetched_at always, the
\* omitempty fields only when they are not the zero value
MarshalState(st) ==
  LET keys == {"installed", "fetched_at"}
                \cup (IF st.InstalledVersion # "" THEN {"installed_version"} ELSE {})
                \cup (IF st.LatestVersion # "" THEN {"latest_version"} ELSE {})
                \cup (IF st.Outdated THEN {"outdated"} ELSE {})
  IN [k \in keys |->
        CASE k = "installed" -> st.Installed
          [] k = "fetched_at" -> st.FetchedAt
          [] k = "installed_version" -> st.InstalledVersion
          [] k = "latest_version" -> st.LatestVersion
          [] k = "outdated" -> st.Outdated]

\* json.MarshalIndent of the cache: the two exported fields with a tag
Marshal(c) ==
  [last_updated |-> c.LastUpdated,
   packages |-> [n \in DOMAIN c.Packages |-> MarshalState(c.Packages[n])]]

\* json.Unmarshal into a PackageState: a missing key leaves the zero value
UnmarshalState(j) ==
  [Installed |-> IF "installed" \in DOMAIN j THEN j.installed ELSE FALSE,
   InstalledVersion |->
     IF "installed_version" \in DOMAIN j THEN j.installed_version ELSE "",
   LatestVersion |-> IF "latest_version" \in DOMAIN j THEN j.latest_version ELSE "",
   Outdated |-> IF "outdated" \in DOMAIN j THEN j.outdated ELSE FALSE,
   FetchedAt |-> IF "fetched_at" \in DOMAIN j THEN j.fetched_at ELSE ZeroTime]

\* json.Unmarshal into the cache GetCache has just built
Unmarshal(doc) ==
  [LastUpdated |-> doc.last_updated,
   Packages |-> [n \in DOMAIN doc.packages |-> UnmarshalState(doc.packages[n])]]

\* loadFromDisk into the cache GetCache has just built: no file is a fresh
\* start, a read error is returned before anything is decoded, a file that
\* is not JSON leaves the cache empty, and any other file is decoded as far
\* as its values fit; whatever json.Unmarshal reports is only logged
loadFromDisk(file) ==
  IF file = <<>> THEN EmptyCache
  ELSE IF "unreadable" \in DOMAIN file[1] THEN EmptyCache
  ELSE IF "corrupt" \in DOMAIN file[1] THEN EmptyCache
  ELSE Unmarshal(file[1])

\* a save that reports success without writing
SavedFileStale(old, c, sv) ==
  IF sv = "truncated" THEN <<CorruptFile>> ELSE old

\* saveToDiskLocked: the file after os.WriteFile
SavedFile(old, c, sv) ==
  IF sv = "ok" THEN <<Marshal(c)>> ELSE IF sv = "truncated" THEN <<CorruptFile>> ELSE old

\* the answers of brew and of the file system that one Refresh gets to
\* see: none when it skips, the list answer alone when that is an error
Answers(c, force, now) ==
  IF ~force /\ ~needsRefreshLocked(c, now)
  THEN {<<NoList, NoOutdated, "ok">>}
  ELSE {<<lst, NoOutdated, "ok">> : lst \in {l \in ListOutcomes : l.err}}
       \cup ({l \in ListOutcomes : ~l.err} \X OutdatedOutcomes \X SaveOutcomes)

\* the calls that have written the cache or built it: those counted in
\* cacheCalls and every Refresh that ran its list query
CallsMade == cacheCalls + Cardinality({i \in 1..Len(commands) : commands[i] = "list"})

\* a write lock that does not wait for the readers
WriteLockBlind(t) == TRUE

\* c.mu.Lock() returns: no other goroutine is inside a read-locked loop
WriteLockFree(t) == \A u \in Threads \ {t} : cx[u].pc # "ranging"

\* one Refresh(force), from Lock to Unlock, on behalf of the call r of
\* thread t; next is where the call goes on
RefreshLocked(t, r, force, next) ==
  \E a \in Answers(cache, force, cacheClock) :
    LET lst == a[1]
        od == a[2]
        sv == a[3]
        o == RefreshOutcome(cache, force, cacheClock, lst, od) IN
    /\ Len(commands) + Len(o.cmds) <= MaxCommands
    /\ WriteLockFree(t)
    /\ cache' = o.cache
    /\ commands' = commands \o o.cmds
    /\ cacheFile' = IF o.save THEN SavedFile(cacheFile, o.cache, sv) ELSE cacheFile
    /\ cx' = [cx EXCEPT ![t] =
         [r EXCEPT !.pc = next, !.ran = o.ran, !.listErr = o.listErr,
                   !.rerr = o.listErr \/ (o.save /\ sv # "ok"),
                   !.lst = lst, !.od = od, !.sv = sv, !.now = cacheClock]]

\* what a call on the cache sees when it begins
BeginCall(op, name, force) ==
  [IdleCall EXCEPT !.op = op, !.name = name, !.force = force,
                   !.at = cacheClock,
                   !.before = [cache |-> cache, cacheFile |-> cacheFile,
                               commands |-> commands]]

\* the call returns
ReturnedCall(r, err) == [r EXCEPT !.pc = "idle", !.ret = IF err THEN "err" ELSE "nil"]

\* Refresh(ctx, force)
Refresh(t) ==
  /\ cx[t].pc = "idle"
  /\ \E force \in BOOLEAN :
       RefreshLocked(t, BeginCall("Refresh", "", force), force, "refreshed")
  /\ UNCHANGED <<cacheClock, cacheCalls, catalogVars>>

\* Refresh returns its error
RefreshReturn(t) ==
  /\ cx[t].pc = "refreshed"
  /\ cx' = [cx EXCEPT ![t] = ReturnedCall(@, @.rerr)]
  /\ UNCHANGED <<cacheClock, cache, cacheFile, commands, cacheCalls, catalogVars>>

\* IsInstalled, lines 138-140: needsRefreshLocked under the read lock
IsInstalledCheck(t) ==
  /\ cx[t].pc = "idle"
  /\ \E name \in PkgNames :
       cx' = [cx EXCEPT ![t] =
         [BeginCall("IsInstalled", name, FALSE) EXCEPT
            !.pc = IF needsRefreshLocked(cache, cacheClock) THEN "isRefresh" ELSE "isRead"]]
  /\ UNCHANGED <<cacheClock, cache, cacheFile, commands, cacheCalls, catalogVars>>

\* IsInstalled, lines 142-144: _ = c.Refresh(ctx, false)
IsInstalledRefresh(t) ==
  /\ cx[t].pc = "isRefresh"
  /\ RefreshLocked(t, cx[t], FALSE, "isRead")
  /\ UNCHANGED <<cacheClock, cacheCalls, catalogVars>>

\* the lookup of IsInstalled
Lookup(c, name) == name \in DOMAIN c.Packages /\ c.Packages[name].Installed

\* IsInstalled, lines 146-149: the lookup under the read lock
IsInstalledRead(t) ==
  /\ cx[t].pc = "isRead"
  /\ cx' = [cx EXCEPT ![t] =
       ReturnedCall([cx[t] EXCEPT !.ans = Lookup(cache, cx[t].name),
                                  !.gens = {cache.Packages}], FALSE)]
  /\ UNCHANGED <<cacheClock, cache, cacheFile, commands, cacheCalls, catalogVars>>

\* GetState(name): the entry and whether it exists
GetState(t) ==
  /\ cx[t].pc = "idle"
  /\ \E name \in PkgNames :
       cx' = [cx EXCEPT ![t] =
         ReturnedCall([BeginCall("GetState", name, FALSE) EXCEPT
                         !.gens = {cache.Packages},
                         !.found = (name \in DOMAIN cache.Packages),
                         !.state = IF name \in DOMAIN cache.Packages
                                   THEN cache.Packages[name] ELSE ZeroState],
                      FALSE)]
  /\ UNCHANGED <<cacheClock, cache, cacheFile, commands, cacheCalls, catalogVars>>

\* the elements of a list
Elems(names) == {names[i] : i \in 1..Len(names)}

\* RefreshVersions, lines 277-285: the names in the order of their first
\* occurrence
Unique(names) ==
  LET firsts == {i \in 1..Len(names) : \A j \in 1..(i - 1) : names[j] # names[i]}
  IN [k \in 1..Cardinality(firsts) |->
        names[CHOOSE i \in firsts : Cardinality({j \in firsts : j <= i}) = k]]

\* chunkStrings(items, size)
chunkStrings(items, size) ==
  LET sz == IF size <= 0 THEN 1 ELSE size
      end(k) == IF k * sz > Len(items) THEN Len(items) ELSE k * sz
  IN [k \in 1..((Len(items) + sz - 1) \div sz) |->
        SubSeq(items, (k - 1) * sz + 1, end(k))]

\* what one brew info call does: it fails, or it reports every formula of
\* the chunk with the same installed versions and stable version
ChunkShapes ==
  {[err |-> TRUE, installed |-> <<>>, stable |-> ""]}
    \cup {[err |-> FALSE, installed |-> i[1], stable |-> i[2]] : i \in InfoShapes}

\* the parsed output of brew info for a chunk
InfoAnswer(chunk, shape) ==
  [err |-> shape.err,
   formulae |-> IF shape.err THEN {}
                ELSE {[Name |-> n, Installed |-> shape.installed, Stable |-> shape.stable] :
                        n \in Elems(chunk)}]

\* the chunks RefreshVersions queries for each list of names
ChunksOf == [names \in NameLists |-> chunkStrings(Unique(names), maxBatchSize)]

\* the answers brew info can give to the chunks of a list of names
InfosOf ==
  [names \in NameLists |->
     {[k \in 1..Len(ChunksOf[names]) |-> InfoAnswer(ChunksOf[names][k], shapes[k])] :
        shapes \in [1..Len(ChunksOf[names]) -> ChunkShapes]}]

\* fetchVersionsForChunk: the first installed version, or "", and the
\* stable version of every formula of the answer
fetchVersionsForChunk(ans) ==
  [n \in {f.Name : f \in ans.formulae} |->
     LET f == CHOOSE g \in ans.formulae : g.Name = n IN
     [InstalledVersion |-> IF Len(f.Installed) > 0 THEN f.Installed[1] ELSE "",
      LatestVersion |-> f.Stable]]

\* RefreshVersions, lines 297-319: the entry of one reported formula
VersionedState(pk, name, info, now) ==
  LET state == IF name \in DOMAIN pk THEN pk[name]
               ELSE [ZeroState EXCEPT !.FetchedAt = now]
      st == [state EXCEPT !.InstalledVersion = info.InstalledVersion,
                          !.LatestVersion = info.LatestVersion,
                          !.FetchedAt = now,
                          !.Installed = (info.InstalledVersion # "")]
  IN IF st.InstalledVersion # "" /\ st.LatestVersion # ""
     THEN [st EXCEPT !.Outdated = (st.InstalledVersion # st.LatestVersion)]
     ELSE st

\* the map after the results of one chunk are applied
ApplyInfo(pk, res, now) ==
  [n \in DOMAIN pk \cup DOMAIN res |->
     IF n \in DOMAIN res THEN VersionedState(pk, n, res[n], now) ELSE pk[n]]

\* a loop over the chunks that stops at the first chunk whose query fails
RECURSIVE AppliedChunksAbort(_, _, _, _)
AppliedChunksAbort(pk, infos, k, now) ==
  IF k = 0 THEN pk
  ELSE IF \E j \in 1..k : infos[j].err
  THEN AppliedChunksAbort(pk, infos, k - 1, now)
  ELSE ApplyInfo(AppliedChunksAbort(pk, infos, k - 1, now),
                 fetchVersionsForChunk(infos[k]), now)

\* RefreshVersions, lines 291-321: the map after the first k chunks; a
\* chunk whose query fails is skipped
RECURSIVE AppliedChunks(_, _, _, _)
AppliedChunks(pk, infos, k, now) ==
  IF k = 0 THEN pk
  ELSE IF infos[k].err THEN AppliedChunks(pk, infos, k - 1, now)
  ELSE ApplyInfo(AppliedChunks(pk, infos, k - 1, now),
                 fetchVersionsForChunk(infos[k]), now)

\* an Invalidate() that also drops every entry
InvalidatedWiped(c, names) ==
  IF Len(names) = 0 THEN [c EXCEPT !.LastUpdated = ZeroTime, !.Packages = NoPackages]
  ELSE [c EXCEPT !.Packages =
          [n \in DOMAIN c.Packages \ Elems(names) |-> c.Packages[n]]]

\* Invalidate(names...), lines 331-340: no names resets LastUpdated, names
\* are deleted from the map
Invalidated(c, names) ==
  IF Len(names) = 0 THEN [c EXCEPT !.LastUpdated = ZeroTime]
  ELSE [c EXCEPT !.Packages =
          [n \in DOMAIN c.Packages \ Elems(names) |-> c.Packages[n]]]

\* c.Packages[name] of Go: the zero value when the key is absent
EntryOf(c, name) == IF name \in DOMAIN c.Packages THEN c.Packages[name] ELSE ZeroState

\* the cache with the entry of name set
WithEntry(c, name, st) ==
  [c EXCEPT !.Packages =
     [n \in DOMAIN c.Packages \cup {name} |-> IF n = name THEN st ELSE c.Packages[n]]]

\* a MarkInstalled that also stamps the snapshot as fresh
MarkedInstalledFresh(c, name, version, now) ==
  [WithEntry(c, name,
     [EntryOf(c, name) EXCEPT !.Installed = TRUE, !.InstalledVersion = version,
                              !.LatestVersion = version, !.Outdated = FALSE,
                              !.FetchedAt = now])
   EXCEPT !.LastUpdated = now]

\* MarkInstalled(name, version), lines 350-357
MarkedInstalled(c, name, version, now) ==
  WithEntry(c, name,
    [EntryOf(c, name) EXCEPT !.Installed = TRUE, !.InstalledVersion = version,
                             !.LatestVersion = version, !.Outdated = FALSE,
                             !.FetchedAt = now])

\* MarkUninstalled(name), line 367
MarkedUninstalled(c, name) ==
  [c EXCEPT !.Packages = [n \in DOMAIN c.Packages \ {name} |-> c.Packages[n]]]

\* MarkUpgraded(name, newVersion), lines 377-383: Installed is not assigned
MarkedUpgraded(c, name, version, now) ==
  WithEntry(c, name,
    [EntryOf(c, name) EXCEPT !.InstalledVersion = version,
                             !.LatestVersion = version, !.Outdated = FALSE,
                             !.FetchedAt = now])

\* a call that takes the write lock, changes the cache to c2 and returns
\* what saveToDiskLocked returns
WriteCall(t, r, c2, sv) ==
  /\ cache' = c2
  /\ cacheFile' = SavedFile(cacheFile, c2, sv)
  /\ cx' = [cx EXCEPT ![t] =
       ReturnedCall([r EXCEPT !.sv = sv, !.rerr = (sv # "ok")], sv # "ok")]

\* RefreshVersions(ctx, names)
RefreshVersions(t) ==
  /\ cx[t].pc = "idle"
  /\ CallsMade < MaxCacheCalls
  /\ cacheCalls' = cacheCalls + 1
  /\ \E names \in NameLists :
       LET r == [BeginCall("RefreshVersions", "", FALSE) EXCEPT !.names = names] IN
       IF Len(names) = 0
       THEN /\ cx' = [cx EXCEPT ![t] = ReturnedCall(r, FALSE)]
            /\ UNCHANGED <<cache, cacheFile, commands>>
       ELSE /\ WriteLockFree(t)
            /\ Len(commands) + Len(ChunksOf[names]) <= MaxCommands
            /\ commands' = commands \o [k \in 1..Len(ChunksOf[names]) |-> "info"]
            /\ \E infos \in InfosOf[names], sv \in SaveOutcomes :
                 WriteCall(t, [r EXCEPT !.infos = infos],
                   [cache EXCEPT !.Packages =
                      AppliedChunks(cache.Packages, infos, Len(infos), cacheClock)],
                   sv)
  /\ UNCHANGED <<cacheClock, catalogVars>>

\* Invalidate(names...)
Invalidate(t) ==
  /\ cx[t].pc = "idle"
  /\ WriteLockFree(t)
  /\ CallsMade < MaxCacheCalls
  /\ cacheCalls' = cacheCalls + 1
  /\ \E names \in NameLists, sv \in SaveOutcomes :
       WriteCall(t, [BeginCall("Invalidate", "", FALSE) EXCEPT !.names = names],
                 Invalidated(cache, names), sv)
  /\ UNCHANGED <<cacheClock, commands, catalogVars>>

\* MarkInstalled(name, version)
MarkInstalled(t) ==
  /\ cx[t].pc = "idle"
  /\ WriteLockFree(t)
  /\ CallsMade < MaxCacheCalls
  /\ cacheCalls' = cacheCalls + 1
  /\ \E name \in PkgNames, version \in Versions, sv \in SaveOutcomes :
       WriteCall(t, [BeginCall("MarkInstalled", name, FALSE) EXCEPT !.version = version],
                 MarkedInstalled(cache, name, version, cacheClock), sv)
  /\ UNCHANGED <<cacheClock, commands, catalogVars>>

\* MarkUninstalled(name)
MarkUninstalled(t) ==
  /\ cx[t].pc = "idle"
  /\ WriteLockFree(t)
  /\ CallsMade < MaxCacheCalls
  /\ cacheCalls' = cacheCalls + 1
  /\ \E name \in PkgNames, sv \in SaveOutcomes :
       WriteCall(t, BeginCall("MarkUninstalled", name, FALSE),
                 MarkedUninstalled(cache, name), sv)
  /\ UNCHANGED <<cacheClock, commands, catalogVars>>

\* MarkUpgraded(name, newVersion)
MarkUpgraded(t) ==
  /\ cx[t].pc = "idle"
  /\ WriteLockFree(t)
  /\ CallsMade < MaxCacheCalls
  /\ cacheCalls' = cacheCalls + 1
  /\ \E name \in PkgNames, version \in Versions, sv \in SaveOutcomes :
       WriteCall(t, [BeginCall("MarkUpgraded", name, FALSE) EXCEPT !.version = version],
                 MarkedUpgraded(cache, name, version, cacheClock), sv)
  /\ UNCHANGED <<cacheClock, commands, catalogVars>>

\* ResetCache and GetCache, or a new process: a cache built from the file
GetCache(t) ==
  /\ \A u \in Threads : cx[u].pc = "idle"
  /\ CallsMade < MaxCacheCalls
  /\ cacheCalls' = cacheCalls + 1
  /\ cache' = loadFromDisk(cacheFile)
  /\ cx' = [u \in Threads |->
       IF u = t THEN ReturnedCall(BeginCall("GetCache", "", FALSE), FALSE) ELSE IdleCall]
  /\ UNCHANGED <<cacheClock, cacheFile, commands, catalogVars>>

\* Refresh is called and waits for the write lock
RefreshCall(t) ==
  /\ cx[t].pc = "idle"
  /\ CallsMade < MaxCacheCalls
  /\ \E force \in BOOLEAN :
       cx' = [cx EXCEPT ![t] = [BeginCall("Refresh", "", force) EXCEPT !.pc = "locking"]]
  /\ UNCHANGED <<cacheClock, cache, cacheFile, commands, cacheCalls, catalogVars>>

\* Refresh has the write lock and runs to its Unlock
RefreshRun(t) ==
  /\ cx[t].pc = "locking"
  /\ RefreshLocked(t, cx[t], cx[t].force, "refreshed")
  /\ UNCHANGED <<cacheClock, cacheCalls, catalogVars>>

\* what GetInstalledSet returns of a map
InstalledIn(g) == {n \in DOMAIN g : g[n].Installed}

\* a GetOutdatedMap that tests Outdated alone
OutdatedInAny(g) ==
  [n \in {m \in DOMAIN g : g[m].Outdated} |->
     [Name |-> n, InstalledVersion |-> g[n].InstalledVersion,
      LatestVersion |-> g[n].LatestVersion]]

\* what GetOutdatedMap returns of a map
OutdatedIn(g) ==
  [n \in {m \in DOMAIN g : g[m].Outdated /\ g[m].Installed} |->
     [Name |-> n, InstalledVersion |-> g[n].InstalledVersion,
      LatestVersion |-> g[n].LatestVersion]]

\* a read-locked loop over c.Packages begins
Ranging(op) ==
  [BeginCall(op, "", FALSE) EXCEPT !.pc = "ranging", !.todo = DOMAIN cache.Packages,
                                   !.gens = {cache.Packages}]

\* GetInstalledSet(): RLock and the start of the loop
GetInstalledSet(t) ==
  /\ cx[t].pc = "idle"
  /\ cx' = [cx EXCEPT ![t] = Ranging("GetInstalledSet")]
  /\ UNCHANGED <<cacheClock, cache, cacheFile, commands, cacheCalls, catalogVars>>

\* GetOutdatedMap(): RLock and the start of the loop
GetOutdatedMap(t) ==
  /\ cx[t].pc = "idle"
  /\ cx' = [cx EXCEPT ![t] = Ranging("GetOutdatedMap")]
  /\ UNCHANGED <<cacheClock, cache, cacheFile, commands, cacheCalls, catalogVars>>

\* the PackageInfo GetOutdatedMap returns for an entry
InfoOf(name, pkg) ==
  [Name |-> name, InstalledVersion |-> pkg.InstalledVersion,
   LatestVersion |-> pkg.LatestVersion]

\* a map with one more entry
Put(m, name, v) == [n \in DOMAIN m \cup {name} |-> IF n = name THEN v ELSE m[n]]

\* one iteration of the loop of GetInstalledSet or GetOutdatedMap
RangeNext(t) ==
  /\ cx[t].pc = "ranging"
  /\ \E name \in cx[t].todo :
       LET r == [cx[t] EXCEPT !.todo = @ \ {name}, !.gens = @ \cup {cache.Packages}] IN
       IF name \notin DOMAIN cache.Packages
       THEN cx' = [cx EXCEPT ![t] = r]
       ELSE LET pkg == cache.Packages[name] IN
            cx' = [cx EXCEPT ![t] =
              [r EXCEPT !.view = Put(@, name, pkg),
                        !.installed =
                          IF r.op = "GetInstalledSet" /\ pkg.Installed
                          THEN @ \cup {name} ELSE @,
                        !.outdated =
                          IF r.op = "GetOutdatedMap" /\ pkg.Outdated /\ pkg.Installed
                          THEN Put(@, name, InfoOf(name, pkg)) ELSE @]]
  /\ UNCHANGED <<cacheClock, cache, cacheFile, commands, cacheCalls, catalogVars>>

\* the loop is over: RUnlock and return
RangeReturn(t) ==
  /\ cx[t].pc = "ranging"
  /\ cx[t].todo = {}
  /\ cx' = [cx EXCEPT ![t] = ReturnedCall(@, FALSE)]
  /\ UNCHANGED <<cacheClock, cache, cacheFile, commands, cacheCalls, catalogVars>>

\* the cache's clock advances
CacheTick ==
  /\ cacheClock < MaxCacheClock
  /\ cacheClock' = cacheClock + 1
  /\ UNCHANGED <<cache, cacheFile, commands, cacheCalls, cx, catalogVars>>

\* the calls of one goroutine on the cache and the steps inside them
CacheCall(t) ==
  \/ Refresh(t)
  \/ RefreshReturn(t)
  \/ IsInstalledCheck(t)
  \/ IsInstalledRefresh(t)
  \/ IsInstalledRead(t)
  \/ GetState(t)

NextCache == CacheTick \/ \E t \in SeqThreads : CacheCall(t)

SpecCache == Init /\ [][NextCache]_vars

\* the calls that write the cache, and its construction from the file
CacheWrite(t) ==
  \/ RefreshVersions(t)
  \/ Invalidate(t)
  \/ MarkInstalled(t)
  \/ MarkUninstalled(t)
  \/ MarkUpgraded(t)
  \/ GetCache(t)

\* the reads and Refresh of a session that has calls left
SessionCall(t) ==
  \/ CallsMade < MaxCacheCalls /\ Refresh(t)
  \/ RefreshReturn(t)
  \/ CallsMade < MaxCacheCalls /\ IsInstalledCheck(t)
  \/ IsInstalledRefresh(t)
  \/ IsInstalledRead(t)
  \/ CallsMade < MaxCacheCalls /\ GetState(t)

\* the calls of one session, all of them within the same hour
NextCacheMut == \E t \in SeqThreads : SessionCall(t) \/ CacheWrite(t)

SpecCacheMut == Init /\ [][NextCacheMut]_vars

\* RefreshVersions on the answers infos: the cache after the loop
RefreshedVersions(c, infos, now) ==
  [c EXCEPT !.Packages = AppliedChunks(c.Packages, infos, Len(infos), now)]

\* Resolver.ResolveBulk, the Installed field of the Info it builds from
\* GetState(name): the zero Info when the cache has no entry
ResolvedInstalled(c, name) ==
  IF name \in DOMAIN c.Packages THEN c.Packages[name].InstalledVersion ELSE ""

\* touchVersionCache(execName): ResolveBulk, Remove, ResolveBulk and, when
\* the fresh installed version is not empty and differs, Touch; i1 and i2
\* are the answers of brew info. The caches it saves, in order.
TouchedVersionCache(c, name, i1, i2, now) ==
  LET c1 == RefreshedVersions(c, i1, now)
      prev == ResolvedInstalled(c1, name)
      c2 == Invalidated(c1, <<name>>)
      c3 == RefreshedVersions(c2, i2, now)
      fresh == ResolvedInstalled(c3, name)
  IN IF name \notin DOMAIN c3.Packages \/ fresh = "" \/ fresh = prev
     THEN <<c1, c2, c3>>
     ELSE <<c1, c2, c3, MarkedUpgraded(c3, name, fresh, now)>>

\* the file after the caches cs were saved one after the other: that of
\* the last save that opened the file, written or truncated, or the old
\* file when none did
SavedFiles(old, cs) ==
  {old} \cup {SavedFile(old, cs[k], sv) : k \in 1..Len(cs), sv \in {"ok", "truncated"}}

\* handleSelectedPackageWithSession after a successful brew install:
\* MarkInstalled(execName, "") and touchVersionCache(execName)
PostInstall(t) ==
  /\ cx[t].pc = "idle"
  /\ CallsMade < MaxCacheCalls
  /\ cacheCalls' = cacheCalls + 1
  /\ Len(commands) + 2 <= MaxCommands
  /\ commands' = commands \o <<"info", "info">>
  /\ \E name \in PkgNames, sh1 \in ChunkShapes, sh2 \in ChunkShapes :
       LET i1 == <<InfoAnswer(<<name>>, sh1)>>
           i2 == <<InfoAnswer(<<name>>, sh2)>>
           c0 == MarkedInstalled(cache, name, "", cacheClock)
           cs == <<c0>> \o TouchedVersionCache(c0, name, i1, i2, cacheClock) IN
       /\ cache' = cs[Len(cs)]
       /\ cacheFile' \in SavedFiles(cacheFile, cs)
       /\ cx' = [cx EXCEPT ![t] =
            ReturnedCall([BeginCall("PostInstall", name, FALSE) EXCEPT
                            !.infos = i1 \o i2],
                         FALSE)]
  /\ UNCHANGED <<cacheClock, catalogVars>>

\* FetchState is called: GetCache returns the cache and Refresh waits for
\* the write lock
FetchStateCall(t) ==
  /\ cx[t].pc = "idle"
  /\ CallsMade < MaxCacheCalls
  /\ cx' = [cx EXCEPT ![t] = [BeginCall("FetchState", "", FALSE) EXCEPT !.pc = "fsLocking"]]
  /\ UNCHANGED <<cacheClock, cache, cacheFile, commands, cacheCalls, catalogVars>>

\* FetchState, line 263: cache.Refresh(ctx, false)
FetchStateRefresh(t) ==
  /\ cx[t].pc = "fsLocking"
  /\ RefreshLocked(t, cx[t], FALSE, "fsInstalled")
  /\ UNCHANGED <<cacheClock, cacheCalls, catalogVars>>

\* FetchState, lines 263-268: the error of Refresh is returned; otherwise
\* GetInstalledSet() reads the map under the read lock
FetchStateInstalled(t) ==
  /\ cx[t].pc = "fsInstalled"
  /\ cx' = [cx EXCEPT ![t] =
       IF cx[t].rerr THEN ReturnedCall(cx[t], TRUE)
       ELSE [cx[t] EXCEPT !.pc = "fsOutdated", !.installed = InstalledIn(cache.Packages)]]
  /\ UNCHANGED <<cacheClock, cache, cacheFile, commands, cacheCalls, catalogVars>>

\* FetchState, line 269: GetOutdatedMap() reads the map under the read
\* lock, and the BrewState is returned
FetchStateOutdated(t) ==
  /\ cx[t].pc = "fsOutdated"
  /\ cx' = [cx EXCEPT ![t] =
       ReturnedCall([cx[t] EXCEPT !.outdated = OutdatedIn(cache.Packages)], FALSE)]
  /\ UNCHANGED <<cacheClock, cache, cacheFile, commands, cacheCalls, catalogVars>>

\* two goroutines that fetch the state and refresh the cache
NextFetchState ==
  \E t \in Threads :
    \/ FetchStateCall(t)
    \/ FetchStateRefresh(t)
    \/ FetchStateInstalled(t)
    \/ FetchStateOutdated(t)
    \/ RefreshCall(t)
    \/ RefreshRun(t)
    \/ RefreshReturn(t)

SpecFetchState == Init /\ [][NextFetchState]_vars

\* a session of the package manager: reads, refreshes and installs
NextCacheInstall == \E t \in SeqThreads : SessionCall(t) \/ PostInstall(t)

SpecCacheInstall == Init /\ [][NextCacheInstall]_vars

\* a session that refreshes, asks and invalidates within the same hour
NextCacheInv == \E t \in SeqThreads : CacheCall(t) \/ Invalidate(t)

SpecCacheInv == Init /\ [][NextCacheInv]_vars

\* between two runs the cache file is removed, damaged or made unreadable
DamageFile ==
  /\ \A u \in Threads : cx[u].pc = "idle"
  /\ cacheFile' \in DamagedFiles
  /\ UNCHANGED <<cacheClock, cache, commands, cacheCalls, cx, catalogVars>>

\* runs of the program that build the cache from whatever file they find
NextCacheLoad ==
  \/ DamageFile
  \/ \E t \in SeqThreads :
       \/ GetCache(t)
       \/ IsInstalledCheck(t)
       \/ IsInstalledRefresh(t)
       \/ IsInstalledRead(t)

SpecCacheLoad == Init /\ [][NextCacheLoad]_vars

\* where the process can die inside os.WriteFile: before the file is
\* opened, after O_TRUNC has emptied it or some of the bytes are written,
\* or after the last byte
CrashPoints == {"beforeOpen", "afterTruncate", "afterWrite"}

\* the file a crash inside os.WriteFile leaves behind
CrashedFile(old, c, point) ==
  IF point = "beforeOpen" THEN old
  ELSE IF point = "afterTruncate" THEN <<CorruptFile>>
  ELSE <<Marshal(c)>>

\* the process dies while MarkInstalled is in saveToDiskLocked; the next
\* process builds its cache from the file that is left
CrashInSave(t) ==
  /\ cx[t].pc = "idle"
  /\ WriteLockFree(t)
  /\ CallsMade < MaxCacheCalls
  /\ cacheCalls' = cacheCalls + 1
  /\ \E name \in PkgNames, version \in Versions, point \in CrashPoints :
       LET left == CrashedFile(cacheFile,
                     MarkedInstalled(cache, name, version, cacheClock), point) IN
       /\ cacheFile' = left
       /\ cache' = loadFromDisk(left)
       /\ cx' = [u \in Threads |->
            IF u = t
            THEN [BeginCall("CrashInSave", name, FALSE) EXCEPT !.version = version]
            ELSE IdleCall]
  /\ UNCHANGED <<cacheClock, commands, catalogVars>>

\* a session in which the process can die while it saves
NextCacheCrash == NextCacheMut \/ \E t \in SeqThreads : CrashInSave(t)

SpecCacheCrash == Init /\ [][NextCacheCrash]_vars

\* two goroutines: one reads while the other refreshes
ConcCall(t) ==
  \/ RefreshCall(t)
  \/ RefreshRun(t)
  \/ RefreshReturn(t)
  \/ GetInstalledSet(t)
  \/ GetOutdatedMap(t)
  \/ RangeNext(t)
  \/ RangeReturn(t)
  \/ CallsMade < MaxCacheCalls /\ IsInstalledCheck(t)
  \/ IsInstalledRefresh(t)
  \/ IsInstalledRead(t)
  \/ GetState(t)

NextCacheConc == \E t \in Threads : ConcCall(t)

SpecCacheConc == Init /\ [][NextCacheConc]_vars

\* ------------------------------------------------------------------ claims
\* a call of process p has returned and nothing of p has run since
Done(p) == run[p].pc = "idle" /\ run[p].ret # "none"

\* a call of process p has begun
Called(p) == run[p].call > 0

\* the metadata and the presence of a catalog when the call of p began
MetaAtStart(p) == ReadMetaOf(run[p].snap.metaFile)[2]

PresentAtStart(p) == run[p].snap.hot.hotData # <<>>

MaxTime(a, b) == IF a > b THEN a ELSE b

\* the call of p began on the fast path's conditions
FreshAtStart(p) ==
  /\ Called(p)
  /\ PresentAtStart(p)
  /\ ~run[p].refresh
  /\ run[p].now - MaxTime(MetaAtStart(p).LastChecked, MetaAtStart(p).LastSuccess)
       < RefreshInterval

\* the call of p has written neither file so far
WroteNothing(p) ==
  /\ run[p].blobWrites = 0
  /\ run[p].metaWrites = 0
  /\ indexFile = run[p].snap.indexFile
  /\ metaFile = run[p].snap.metaFile

\* C1: a call that begins with a catalog present, force=false and
\* now - max(LastChecked, LastSuccess) < RefreshInterval never reaches a
\* fetch, writes neither the blob nor the metadata, and returns nil.
C1_FastPath ==
  \A p \in Procs :
    FreshAtStart(p) =>
      /\ run[p].pc \in {"gate", "idle"}
      /\ run[p].sent = <<>>
      /\ WroteNothing(p)
      /\ (run[p].pc = "idle" => run[p].ret = "nil" /\ run[p].path = "skip")

C1_Witness ==
  \E p \in Procs :
    /\ FreshAtStart(p)
    /\ Done(p)
    /\ run[p].path = "skip"
    /\ run[p].now > MetaAtStart(p).LastChecked

\* every record of the body decodes
WellFormed(body) ==
  /\ body.top = "array"
  /\ body.end = "]"
  /\ \A i \in 1..Len(body.recs) : body.recs[i] # "BAD"

\* the last fetch of the returned call of p answered 200 with a good body
Got200(p) ==
  /\ Done(p)
  /\ ~run[p].res.err
  /\ run[p].res.Status = 200
  /\ WellFormed(run[p].res.Body)

\* C2: a call whose fetch returned 200 with a well-formed body has, when it
\* returns, persisted the blob built from that body and metadata in which
\* ETag is "sha256:" + the digest of the stored bytes, UpstreamETag is the
\* response's ETag and LastSuccess = LastChecked = the call's now; GetHot is
\* non-nil.
C2_PersistOn200 ==
  \A p \in Procs :
    Got200(p) =>
      /\ run[p].ret = "nil"
      /\ indexFile # <<>>
      /\ \E t \in run[p].now..clock :
           indexFile = BuildLightIndex(run[p].res.Body, t).Gzip
      /\ metaFile # <<>>
      /\ metaFile[1].ETag = <<"sha256:", SHA256Hex(indexFile[1])>>
      /\ metaFile[1].UpstreamETag = run[p].res.ETag
      /\ metaFile[1].LastSuccess = run[p].now
      /\ metaFile[1].LastChecked = run[p].now
      /\ GetHot(p).hotData # <<>>

C2_Witness ==
  \E p \in Procs :
    /\ Got200(p)
    /\ run[p].res.ETag = "etag-1"
    /\ run[p].snap.indexFile # <<>>
    /\ run[p].snap.indexFile # indexFile

\* the call of p got 304 on its first fetch
Got304(p) == Called(p) /\ run[p].path = "304"

\* C3: a call that receives 304 while a catalog is present returns nil after
\* exactly one fetch; the blob and the hot cache are unchanged, and of the
\* metadata only LastChecked has changed.
C3_NotModifiedTouchesOnly ==
  \A p \in Procs :
    (Done(p) /\ Got304(p) /\ PresentAtStart(p)) =>
      /\ run[p].ret = "nil"
      /\ Len(run[p].sent) = 1
      /\ indexFile = run[p].snap.indexFile
      /\ hot[p] = run[p].snap.hot
      /\ metaFile # <<>>
      /\ metaFile[1].ETag = MetaAtStart(p).ETag
      /\ metaFile[1].UpstreamETag = MetaAtStart(p).UpstreamETag
      /\ metaFile[1].SHA256 = MetaAtStart(p).SHA256
      /\ metaFile[1].Count = MetaAtStart(p).Count
      /\ metaFile[1].SizeBytes = MetaAtStart(p).SizeBytes
      /\ metaFile[1].GeneratedAt = MetaAtStart(p).GeneratedAt
      /\ metaFile[1].LastSuccess = MetaAtStart(p).LastSuccess
      /\ metaFile[1].LastChecked = run[p].now

C3_Witness ==
  \E p \in Procs :
    /\ Done(p) /\ Got304(p) /\ PresentAtStart(p)
    /\ metaFile[1].LastChecked > MetaAtStart(p).LastChecked
    /\ metaFile[1].LastSuccess < metaFile[1].LastChecked
    /\ metaFile[1].UpstreamETag # ""

\* the call of p got 304 with no catalog present
Dangling304(p) == Got304(p) /\ ~PresentAtStart(p)

\* the retry of p did not answer 200
RetryFailed(p) ==
  /\ Dangling304(p)
  /\ Done(p)
  /\ (run[p].res.err \/ run[p].res.Status # 200)

\* C4: no call issues more than two fetches.  A call that receives 304 with
\* no catalog present issues exactly one more fetch, without If-None-Match;
\* when that retry fails or answers anything but 200 the call returns an
\* error with no further fetch and no catalog persisted.
C4_RetryBounded ==
  \A p \in Procs :
    /\ Len(run[p].sent) <= 2
    /\ (Len(run[p].sent) = 2 => Dangling304(p) /\ run[p].sent[2] = <<>>)
    /\ (Dangling304(p) /\ run[p].pc \notin {"umRead", "umWrite", "refetch"}
          => Len(run[p].sent) = 2)
    /\ RetryFailed(p) =>
         /\ run[p].ret = "err"
         /\ Len(run[p].sent) = 2
         /\ run[p].blobWrites = 0
         /\ indexFile = run[p].snap.indexFile
         /\ hot[p] = run[p].snap.hot

C4_Witness ==
  \E p \in Procs :
    /\ RetryFailed(p)
    /\ run[p].res.Status = 304
    /\ run[p].metaWrites = 1

\* the call of p began with metadata that carries an UpstreamETag and no blob
DanglingAtStart(p) ==
  /\ Called(p)
  /\ run[p].snap.indexFile = <<>>
  /\ ~PresentAtStart(p)
  /\ run[p].snap.metaFile # <<>>
  /\ MetaAtStart(p).UpstreamETag # ""

\* call c of p, begun on dangling metadata, has been answered 304 and then
\* 200 with a catalog
Recovering(p, c) ==
  /\ run[p].call = c
  /\ DanglingAtStart(p)
  /\ run[p].path = "304"
  /\ run[p].pc = "build"
  /\ run[p].res.Status = 200
  /\ WellFormed(run[p].res.Body)

\* call c of p has returned nil with a catalog stored, served and described
\* by the metadata
Recovered(p, c) ==
  /\ run[p].call = c
  /\ Done(p)
  /\ run[p].ret = "nil"
  /\ indexFile # <<>>
  /\ indexFile # run[p].snap.indexFile
  /\ ~OpenIndexGZ(p).err
  /\ OpenIndexGZ(p).data = indexFile
  /\ GetHot(p).hotData = indexFile
  /\ metaFile # <<>>
  /\ metaFile[1].SHA256 = SHA256Hex(indexFile[1])
  /\ metaFile[1].ETag = <<"sha256:", SHA256Hex(indexFile[1])>>
  /\ metaFile[1].SizeBytes = GzipLen(indexFile[1])
  /\ metaFile[1].Count = Len(indexFile[1]) - 1
  /\ metaFile[1].GeneratedAt = indexFile[1][1].generated_at
  /\ metaFile[1].UpstreamETag = run[p].res.ETag

\* C5: a call that starts from metadata with an UpstreamETag and no blob and
\* is answered 304 and then 200 (with a catalog that builds) terminates: it
\* returns nil with the catalog persisted, OpenIndexGZ succeeding, GetHot
\* non-nil and the metadata describing the stored blob.
C5_DanglingRecovery ==
  \A p \in SeqProcs : \A c \in 1..MaxCalls : Recovering(p, c) ~> Recovered(p, c)

C5_Witness ==
  \E p \in SeqProcs : \E c \in 1..MaxCalls :
    /\ Recovered(p, c)
    /\ DanglingAtStart(p)
    /\ run[p].path = "304"
    /\ Len(run[p].sent) = 2

\* the last fetch of the returned call of p failed: a transport error or a
\* status other than 200 and 304
FetchFailed(p) ==
  /\ Done(p)
  /\ Len(run[p].sent) >= 1
  /\ (run[p].res.err \/ run[p].res.Status \notin {200, 304})

\* C6: a call whose fetch ends in a transport error or in a status other
\* than 200 and 304 returns an error; the blob file, the hot cache and every
\* metadata field but LastChecked are as before the call, and OpenIndexGZ
\* answers as it did before the call.
C6_FailureKeepsCatalog ==
  \A p \in Procs :
    FetchFailed(p) =>
      /\ run[p].ret = "err"
      /\ indexFile = run[p].snap.indexFile
      /\ hot[p] = run[p].snap.hot
      /\ (metaFile = <<>>) = (run[p].snap.metaFile = <<>>)
      /\ ReadMeta[2].ETag = MetaAtStart(p).ETag
      /\ ReadMeta[2].UpstreamETag = MetaAtStart(p).UpstreamETag
      /\ ReadMeta[2].SHA256 = MetaAtStart(p).SHA256
      /\ ReadMeta[2].Count = MetaAtStart(p).Count
      /\ ReadMeta[2].SizeBytes = MetaAtStart(p).SizeBytes
      /\ ReadMeta[2].GeneratedAt = MetaAtStart(p).GeneratedAt
      /\ ReadMeta[2].LastSuccess = MetaAtStart(p).LastSuccess
      /\ OpenIndexGZ(p) =
           OpenFrom(run[p].snap.hot, run[p].snap.indexFile, run[p].snap.metaFile)

C6_Witness ==
  \E p \in Procs :
    /\ FetchFailed(p)
    /\ PresentAtStart(p)
    /\ ~OpenIndexGZ(p).err
    /\ ReadMeta[2].UpstreamETag # ""
    /\ ReadMeta[2].LastChecked > MetaAtStart(p).LastChecked

\* the call of p is not forced and began after the latest failed call, less
\* than RefreshInterval after it
SoonAfterFailure(p) ==
  /\ lastFailure.call > 0
  /\ run[p].call > lastFailure.call
  /\ ~run[p].refresh
  /\ run[p].now - lastFailure.at < RefreshInterval

\* C7: after a call with a catalog present has failed with a transport error
\* or a status other than 200 and 304, no unforced call begun less than
\* RefreshInterval after it issues a fetch.
C7_NoHotLoop ==
  \A p \in Procs :
    SoonAfterFailure(p) =>
      /\ run[p].pc \in {"gate", "idle"}
      /\ run[p].sent = <<>>

C7_Witness ==
  \E p \in Procs :
    /\ SoonAfterFailure(p)
    /\ Done(p)
    /\ run[p].path = "skip"
    /\ run[p].now > lastFailure.at
    /\ MetaAtStart(p).LastSuccess < lastFailure.at

\* C8: a returned call that issued a fetch has written the metadata, and
\* with it LastChecked, exactly once; a call that skipped has written
\* nothing.
C8_LastCheckedOnce ==
  \A p \in Procs :
    Done(p) =>
      /\ (Len(run[p].sent) >= 1 => run[p].metaWrites = 1)
      /\ (run[p].path = "skip" => run[p].metaWrites = 0 /\ run[p].blobWrites = 0)

\* the If-None-Match header the claim expects of the first fetch of p
ExpectedHeader(p) ==
  IF PresentAtStart(p) /\ MetaAtStart(p).UpstreamETag # ""
  THEN <<MetaAtStart(p).UpstreamETag>> ELSE <<>>

\* C9: the first fetch of a call carries If-None-Match, equal to the stored
\* UpstreamETag, exactly when a catalog is present and the stored
\* UpstreamETag is not empty; otherwise the header is not set.
C9_ConditionalFetch ==
  \A p \in Procs :
    Len(run[p].sent) >= 1 => run[p].sent[1] = ExpectedHeader(p)

C9_Witness ==
  \E p \in Procs :
    /\ Len(run[p].sent) >= 1
    /\ PresentAtStart(p)
    /\ run[p].sent[1] = <<"etag-1">>

\* C10: the metadata on disk never has LastSuccess after LastChecked.
C10_SuccessBeforeChecked ==
  metaFile # <<>> => metaFile[1].LastSuccess <= metaFile[1].LastChecked

\* the fields of the metadata that only a persisted build may set
BuildFields(mf) ==
  <<ReadMetaOf(mf)[2].UpstreamETag, ReadMetaOf(mf)[2].ETag,
    ReadMetaOf(mf)[2].SHA256, ReadMetaOf(mf)[2].LastSuccess>>

\* some call that received 200 renames the metadata of its build in this step
PersistsBuild ==
  \E p \in Procs :
    /\ run[p].pc = "wMeta"
    /\ run[p].res.Status = 200
    /\ run'[p].pc = "loadData"

\* C11: UpstreamETag, ETag, SHA256 and LastSuccess of the persisted metadata
\* change only in the step in which a call that received 200 persists its
\* build; a call that ends in 304, a transport error or another status never
\* changes or reverts them, also when it overlaps a call that succeeds.
C11_OnlyBuildSetsTags ==
  [][BuildFields(metaFile') # BuildFields(metaFile) => PersistsBuild]_vars

\* C12: whenever the blob file and the metadata file both exist, the
\* metadata's ETag and SHA256 are the digest of the blob on disk.
C12_ETagIsBlobDigest ==
  (indexFile # <<>> /\ metaFile # <<>>) =>
    /\ metaFile[1].SHA256 = SHA256Hex(indexFile[1])
    /\ metaFile[1].ETag = <<"sha256:", SHA256Hex(indexFile[1])>>

\* the call of p on the store is, or was until it crashed, any write
Writing(p) == run[p].path \in {"direct", "crashed"}

\* the complete contents the call of p may leave at the final paths
BlobsOf(p) ==
  {run[p].snap.indexFile} \cup
  (IF run[p].op = "WriteIndexGZ" THEN {<<run[p].reader.data>>} ELSE {})

MetasOf(p) == {run[p].snap.metaFile, <<run[p].wmeta>>}

\* C13: with one writer, at every step of a WriteIndexGZ or WriteMeta and
\* after a crash at any step, each final path holds either the complete
\* content it had before the call or the complete new content; bytes of an
\* unfinished write exist only under the temp names.
C13_NoHalfWrittenFile ==
  \A p \in SeqProcs :
    Writing(p) =>
      /\ indexFile \in BlobsOf(p)
      /\ metaFile \in MetasOf(p)
      /\ (indexFile # <<>> => indexFile[1] \in Payloads)
      /\ (metaFile # <<>> => metaFile[1] # Truncated)

\* a crash in the middle of the copy: part of the new blob under the temp
\* name, the complete previous blob under the final name
C13_Witness ==
  \E p \in SeqProcs :
    /\ run[p].path = "crashed"
    /\ run[p].op = "WriteIndexGZ"
    /\ tmpIndex # <<>>
    /\ tmpIndex[1] # <<>>
    /\ tmpIndex[1] \notin Payloads
    /\ indexFile # <<>>
    /\ indexFile = run[p].snap.indexFile
    /\ indexFile[1] # run[p].reader.data

\* both calls have returned
BothDone == \A p \in Procs : Done(p)

\* C14: when two WriteIndexGZ calls on one data directory overlap, the blob
\* at the final path is at every instant one complete payload, never a mix
\* of the two and never a file that is still being written, and when both
\* calls have returned it is the payload of one of them.
C14_NoMixedBytes ==
  /\ (indexFile # <<>> => indexFile[1] \in Payloads)
  /\ \A p \in Procs : run[p].fd # "final"
  /\ (BothDone /\ indexFile # <<>> =>
        \E p \in Procs : run[p].blobWrites = 1 /\ indexFile = <<run[p].reader.data>>)

\* the WriteIndexGZ call of p was given a reader that fails
ReaderFails(p) ==
  /\ run[p].path = "direct"
  /\ run[p].op = "WriteIndexGZ"
  /\ run[p].reader.fails

\* C15: a WriteIndexGZ whose reader fails mid-stream returns an error and
\* leaves the blob file, the metadata file and the hot cache as they were;
\* no temp file remains, and OpenIndexGZ and GetHot return the previous
\* content.
C15_FailedCopyLeavesStore ==
  \A p \in SeqProcs :
    ReaderFails(p) =>
      /\ indexFile = run[p].snap.indexFile
      /\ metaFile = run[p].snap.metaFile
      /\ GetHot(p) = run[p].snap.hot
      /\ OpenIndexGZ(p) = OpenFrom(run[p].snap.hot, run[p].snap.indexFile,
                                   run[p].snap.metaFile)
      /\ (run[p].pc = "idle" =>
            run[p].ret = "err" /\ tmpIndex = <<>> /\ tmpMeta = <<>>)

\* the reader failed after part of the stream, over an existing catalog
C15_Witness ==
  \E p \in SeqProcs :
    /\ ReaderFails(p)
    /\ Done(p)
    /\ run[p].reader.after > 0
    /\ run[p].snap.hot.hotData # <<>>
    /\ run[p].snap.hot.hotData[1] # run[p].reader.data

\* the WriteIndexGZ call of p has returned nil
WroteIndex(p) ==
  /\ run[p].path = "direct"
  /\ run[p].op = "WriteIndexGZ"
  /\ Done(p)
  /\ run[p].ret = "nil"

\* what a read returns after WriteIndexGZ(data, meta)
Expected(data, meta) ==
  [err |-> FALSE, data |-> <<data>>, etag |-> meta.ETag,
   generatedAt |-> meta.GeneratedAt, size |-> Len(data)]

\* C16: after a successful WriteIndexGZ(data, meta), GetHot and OpenIndexGZ
\* return bytes identical to data, meta's ETag and GeneratedAt and
\* size = len(data); OpenIndexGZ returns the same when the hot cache is
\* empty and it falls back to the disk.
C16_RoundTrip ==
  \A p \in SeqProcs :
    WroteIndex(p) =>
      /\ GetHot(p) = [hotData |-> <<run[p].reader.data>>, hotETag |-> run[p].wmeta.ETag,
                      hotGenAt |-> run[p].wmeta.GeneratedAt,
                      hotSize |-> Len(run[p].reader.data)]
      /\ OpenIndexGZ(p) = Expected(run[p].reader.data, run[p].wmeta)
      /\ OpenFrom(EmptyHot, indexFile, metaFile)
           = Expected(run[p].reader.data, run[p].wmeta)

\* a write over a different catalog, with a SizeBytes that is not len(data)
C16_Witness ==
  \E p \in SeqProcs :
    /\ WroteIndex(p)
    /\ run[p].snap.hot.hotData # <<>>
    /\ run[p].snap.hot.hotData[1] # run[p].reader.data
    /\ run[p].snap.hot.hotETag # run[p].wmeta.ETag
    /\ run[p].wmeta.SizeBytes # Len(run[p].reader.data)

\* C17: at rest, a store on which no WriteIndexGZ has succeeded answers
\* OpenIndexGZ with not-found and GetHot with nil; once a WriteIndexGZ has
\* returned success, OpenIndexGZ returns the bytes of the latest successful
\* write, and GetHot returns them or (after ClearHotCacheForTest) nil,
\* never earlier bytes.
C17_NoStaleRead ==
  \A p \in SeqProcs :
    run[p].pc = "idle" =>
      IF lastWrite = <<>>
      THEN OpenIndexGZ(p).err /\ GetHot(p).hotData = <<>>
      ELSE /\ ~OpenIndexGZ(p).err
           /\ OpenIndexGZ(p).data = <<lastWrite[1].data>>
           /\ OpenIndexGZ(p).size = Len(lastWrite[1].data)
           /\ GetHot(p).hotData \in {<<>>, <<lastWrite[1].data>>}
           /\ (WroteIndex(p) => GetHot(p).hotData = <<lastWrite[1].data>>)

\* an overwrite has returned: the hot cache holds the new bytes
C17_Witness ==
  \E p \in SeqProcs :
    /\ WroteIndex(p)
    /\ run[p].snap.hot.hotData # <<>>
    /\ run[p].snap.hot.hotData # GetHot(p).hotData
    /\ lastWrite # <<>>
    /\ GetHot(p).hotData = <<lastWrite[1].data>>

\* the call of thread t on the cache has returned
Answered(t) == cx[t].pc = "idle" /\ cx[t].ret # "none"

\* the age of the snapshot when the call of t began
AgeAtStart(t) == cx[t].at - cx[t].before.cache.LastUpdated

\* the snapshot was refreshed and within the TTL when the call of t began
FreshCall(t) ==
  /\ cx[t].op # "none"
  /\ cx[t].before.cache.LastUpdated # ZeroTime
  /\ AgeAtStart(t) <= defaultTTL

\* the snapshot was never refreshed, or older than the TTL, when the call
\* of t began
StaleCall(t) ==
  /\ cx[t].op # "none"
  /\ (cx[t].before.cache.LastUpdated = ZeroTime \/ AgeAtStart(t) > defaultTTL)

\* the number of list queries in a command log
RECURSIVE Lists(_)
Lists(cmds) ==
  IF cmds = <<>> THEN 0
  ELSE (IF Head(cmds) = "list" THEN 1 ELSE 0) + Lists(Tail(cmds))

\* C18: a Refresh(force=false) or an IsInstalled that begins while the
\* snapshot was refreshed and its age is within the TTL runs no external
\* query and leaves the snapshot alone; so two non-forced refreshes within
\* the TTL run the list query once.
C18_FreshNoQuery ==
  \A t \in SeqThreads :
    (FreshCall(t) /\ ~cx[t].force /\ cx[t].op \in {"Refresh", "IsInstalled"}) =>
      /\ commands = cx[t].before.commands
      /\ Lists(commands) = Lists(cx[t].before.commands)
      /\ cache = cx[t].before.cache
      /\ ~cx[t].ran
      /\ cx[t].pc # "isRefresh"

\* the second of two non-forced refreshes, at an age of exactly the TTL,
\* has returned and the list query ran once
C18_Witness ==
  \E t \in SeqThreads :
    /\ FreshCall(t)
    /\ cx[t].op = "Refresh"
    /\ ~cx[t].force
    /\ Answered(t)
    /\ cx[t].ret = "nil"
    /\ AgeAtStart(t) = defaultTTL
    /\ Lists(commands) = 1

\* C19: an IsInstalled(name) or a GetState(name) that begins on a stale
\* snapshot has run a Refresh before it answers, and when that refresh
\* succeeded the answer is the entry of the refreshed snapshot.
C19_StaleReadRefreshes ==
  \A t \in SeqThreads :
    (Answered(t) /\ StaleCall(t) /\ cx[t].op \in {"IsInstalled", "GetState"}) =>
      /\ cx[t].ran
      /\ Lists(commands) = Lists(cx[t].before.commands) + 1
      /\ (~cx[t].rerr /\ cx[t].op = "IsInstalled" =>
            cx[t].ans = Lookup(cache, cx[t].name))
      /\ (~cx[t].rerr /\ cx[t].op = "GetState" =>
            /\ cx[t].found = (cx[t].name \in DOMAIN cache.Packages)
            /\ (cx[t].found => cx[t].state = cache.Packages[cx[t].name]))

\* C20: when the list query of a Refresh fails, the snapshot (every entry
\* and LastUpdated) and the cache file stay as they were, Refresh returns
\* an error, and an IsInstalled that triggered the refresh returns no error
\* and answers from the unchanged snapshot.
C20_ListFailureKeepsSnapshot ==
  \A t \in SeqThreads :
    cx[t].listErr =>
      /\ cache = cx[t].before.cache
      /\ cacheFile = cx[t].before.cacheFile
      /\ (Answered(t) /\ cx[t].op = "Refresh" => cx[t].ret = "err")
      /\ (Answered(t) /\ cx[t].op = "IsInstalled" =>
            /\ cx[t].ret = "nil"
            /\ cx[t].ans = Lookup(cx[t].before.cache, cx[t].name))

\* the list query failed under an IsInstalled on an aged snapshot that has
\* the package, with a cache file on disk
C20_Witness ==
  \E t \in SeqThreads :
    /\ cx[t].listErr
    /\ Answered(t)
    /\ cx[t].op = "IsInstalled"
    /\ cx[t].ans
    /\ cx[t].before.cache.LastUpdated # ZeroTime
    /\ cacheFile = <<Marshal(cache)>>

\* a Refresh of the call of t ran both queries and built a new snapshot
Rebuilt(t) == cx[t].ran /\ ~cx[t].lst.err

\* C21: when the outdated query fails, the Refresh still succeeds: the
\* snapshot holds exactly the names of the list answer, each installed and
\* not outdated, LastUpdated is the time of the refresh, and the call
\* returns nil when the file was written.
C21_OutdatedFailureNonFatal ==
  \A t \in SeqThreads :
    (Rebuilt(t) /\ cx[t].od.err) =>
      /\ DOMAIN cache.Packages = cx[t].lst.names
      /\ \A n \in DOMAIN cache.Packages :
           cache.Packages[n].Installed /\ ~cache.Packages[n].Outdated
      /\ cache.LastUpdated = cx[t].now
      /\ cache.LastUpdated # ZeroTime
      /\ cache.LastUpdated >= cx[t].before.cache.LastUpdated
      /\ (Answered(t) /\ cx[t].op = "Refresh" /\ cx[t].sv = "ok" => cx[t].ret = "nil")

\* the outdated query failed under a Refresh that replaced an older
\* snapshot in which a package was outdated
C21_Witness ==
  \E t \in SeqThreads :
    /\ Rebuilt(t)
    /\ cx[t].od.err
    /\ Answered(t)
    /\ cx[t].op = "Refresh"
    /\ cx[t].ret = "nil"
    /\ cx[t].lst.names = {"foo", "bar"}
    /\ "foo" \in DOMAIN cx[t].before.cache.Packages
    /\ cx[t].before.cache.Packages["foo"].Outdated
    /\ cache.LastUpdated > cx[t].before.cache.LastUpdated

\* the formulae the outdated answer of the call of t lists
Listed(t) == IF cx[t].od.err THEN {} ELSE cx[t].od.formulae

\* the versions an entry had in the snapshot before the call of t
OldVersions(t, n) ==
  IF n \in DOMAIN cx[t].before.cache.Packages
  THEN <<cx[t].before.cache.Packages[n].InstalledVersion,
         cx[t].before.cache.Packages[n].LatestVersion>>
  ELSE <<"", "">>

\* the entry of n after the Refresh of t, given the formulae that count
\* as outdated
SwapResult(t, n, outdated) ==
  /\ cache.Packages[n].Installed
  /\ cache.Packages[n].Outdated = (\E f \in outdated : f.Name = n)
  /\ \A f \in outdated :
       f.Name = n =>
         /\ Len(f.InstalledVersions) > 0
         /\ cache.Packages[n].InstalledVersion = f.InstalledVersions[1]
         /\ cache.Packages[n].LatestVersion = f.CurrentVersion
  /\ (~cache.Packages[n].Outdated =>
        <<cache.Packages[n].InstalledVersion, cache.Packages[n].LatestVersion>>
          = OldVersions(t, n))

\* C22 as stated: after a Refresh that ran, the key set is the list
\* answer, every entry is installed, and an entry is outdated with the
\* versions of the outdated answer iff the outdated answer lists it, and
\* otherwise keeps the versions of the previous snapshot.
C22_SwapAsStated ==
  \A t \in SeqThreads :
    Rebuilt(t) =>
      /\ DOMAIN cache.Packages = cx[t].lst.names
      /\ \A n \in DOMAIN cache.Packages : SwapResult(t, n, Listed(t))

\* C22, amended: the same, where an entry is outdated iff the outdated
\* answer lists it with at least one installed version.
C22_CopyThenSwap ==
  \A t \in SeqThreads :
    Rebuilt(t) =>
      /\ DOMAIN cache.Packages = cx[t].lst.names
      /\ \A n \in DOMAIN cache.Packages :
           SwapResult(t, n, {f \in Listed(t) : Len(f.InstalledVersions) > 0})

\* a Refresh dropped an entry, kept the versions of one that is no longer
\* outdated, and did not mark the one listed without an installed version
C22_Witness ==
  \E t \in SeqThreads :
    /\ Rebuilt(t)
    /\ "bar" \in DOMAIN cx[t].before.cache.Packages
    /\ "foo" \in DOMAIN cx[t].before.cache.Packages
    /\ cx[t].before.cache.Packages["foo"].Outdated
    /\ DOMAIN cache.Packages = {"foo"}
    /\ ~cache.Packages["foo"].Outdated
    /\ cache.Packages["foo"].InstalledVersion = "1.0"
    /\ \E f \in Listed(t) : f.Name = "bar"

\* the call of t is a RefreshVersions that reached its queries
Versioned(t) == cx[t].op = "RefreshVersions" /\ Len(cx[t].names) > 0

\* the names of the k-th chunk of the RefreshVersions of t
ChunkNames(t, k) == Elems(ChunksOf[cx[t].names][k])

\* the entry RefreshVersions makes of an entry and a reported formula
Reported(old, f, now) ==
  LET iv == IF Len(f.Installed) > 0 THEN f.Installed[1] ELSE "" IN
  [Installed |-> iv # "",
   InstalledVersion |-> iv,
   LatestVersion |-> f.Stable,
   Outdated |-> IF iv # "" /\ f.Stable # "" THEN iv # f.Stable ELSE old.Outdated,
   FetchedAt |-> now]

\* C23: RefreshVersions queries the distinct names in chunks of at most 50,
\* one query per chunk; the entries of a chunk whose query fails are as
\* they were before the call, the results of the other chunks are applied,
\* and the call returns an error only when the file could not be written.
C23_FailedChunkSkipped ==
  \A t \in SeqThreads :
    (Versioned(t) /\ Answered(t)) =>
      LET n == Cardinality(Elems(cx[t].names))
          chunks == (n + maxBatchSize - 1) \div maxBatchSize
          old == cx[t].before.cache.Packages
      IN /\ Len(cx[t].infos) = chunks
         /\ commands = cx[t].before.commands \o [k \in 1..chunks |-> "info"]
         /\ \A k \in 1..chunks :
              /\ Cardinality(ChunkNames(t, k)) <= maxBatchSize
              /\ \A name \in ChunkNames(t, k) :
                   IF cx[t].infos[k].err
                   THEN /\ name \in DOMAIN cache.Packages <=> name \in DOMAIN old
                        /\ name \in DOMAIN old => cache.Packages[name] = old[name]
                   ELSE /\ name \in DOMAIN cache.Packages
                        /\ \E f \in cx[t].infos[k].formulae :
                             /\ f.Name = name
                             /\ cache.Packages[name] =
                                  Reported(IF name \in DOMAIN old THEN old[name]
                                           ELSE ZeroState, f, cx[t].at)
         /\ UNION {ChunkNames(t, k) : k \in 1..chunks} = Elems(cx[t].names)
         /\ (cx[t].ret = "err") = (cx[t].sv # "ok")

\* the query of the first of two chunks failed and the query of the second
\* succeeded, on a cache that held an entry of the first chunk
C23_Witness ==
  \E t \in SeqThreads :
    /\ Versioned(t)
    /\ Answered(t)
    /\ cx[t].ret = "nil"
    /\ Len(cx[t].infos) = 2
    /\ cx[t].infos[1].err
    /\ ~cx[t].infos[2].err
    /\ "foo" \in DOMAIN cx[t].before.cache.Packages
    /\ cx[t].before.cache.Packages["foo"].Outdated
    /\ Cardinality(DOMAIN cache.Packages) = 2

\* C24: every entry that is outdated is installed.
C24_OutdatedImpliesInstalled ==
  \A n \in DOMAIN cache.Packages :
    cache.Packages[n].Outdated => cache.Packages[n].Installed

\* C25: after MarkUpgraded(name, v) the entry of name is installed, has
\* both versions v and is not outdated, whether name was cached or not.
C25_MarkUpgradedState ==
  \A t \in SeqThreads :
    (cx[t].op = "MarkUpgraded" /\ Answered(t)) =>
      /\ cx[t].name \in DOMAIN cache.Packages
      /\ cache.Packages[cx[t].name].Installed
      /\ cache.Packages[cx[t].name].InstalledVersion = cx[t].version
      /\ cache.Packages[cx[t].name].LatestVersion = cx[t].version
      /\ ~cache.Packages[cx[t].name].Outdated

\* the four reported fields of an entry
Fields(st) ==
  [Installed |-> st.Installed, InstalledVersion |-> st.InstalledVersion,
   LatestVersion |-> st.LatestVersion, Outdated |-> st.Outdated]

\* the call of t is a MarkInstalled on a cache that was never refreshed
MarkedOnFresh(t) ==
  /\ cx[t].op = "MarkInstalled"
  /\ Answered(t)
  /\ cx[t].before.cache.LastUpdated = ZeroTime

\* C26: MarkInstalled(name, v) on a never-refreshed cache makes the entry
\* of name installed at v, latest v, not outdated, leaves every other
\* entry as it was, and when it returns nil the file holds that state: a
\* cache loaded from the file reports the same entry for name.
C26_MarkInstalledPersisted ==
  \A t \in SeqThreads :
    MarkedOnFresh(t) =>
      LET old == cx[t].before.cache.Packages
          name == cx[t].name
      IN /\ name \in DOMAIN cache.Packages
         /\ Fields(cache.Packages[name]) =
              [Installed |-> TRUE, InstalledVersion |-> cx[t].version,
               LatestVersion |-> cx[t].version, Outdated |-> FALSE]
         /\ DOMAIN cache.Packages \ {name} = DOMAIN old \ {name}
         /\ \A n \in DOMAIN old \ {name} : cache.Packages[n] = old[n]
         /\ (cx[t].ret = "nil") = (cx[t].sv = "ok")
         /\ cx[t].ret = "nil" =>
              /\ cacheFile # <<>>
              /\ name \in DOMAIN loadFromDisk(cacheFile).Packages
              /\ loadFromDisk(cacheFile).Packages[name] = cache.Packages[name]

\* MarkInstalled with a version returned nil on a never-refreshed cache
\* that held another entry
C26_Witness ==
  \E t \in SeqThreads :
    /\ MarkedOnFresh(t)
    /\ cx[t].ret = "nil"
    /\ cx[t].name = "foo"
    /\ cx[t].version = "2.0"
    /\ "bar" \in DOMAIN cx[t].before.cache.Packages
    /\ "foo" \notin DOMAIN cx[t].before.cache.Packages

\* the call of t leaves LastUpdated alone according to the claim
KeepsLastUpdated(t) ==
  \/ cx[t].op \in {"MarkInstalled", "MarkUpgraded", "MarkUninstalled", "RefreshVersions"}
  \/ cx[t].op = "Invalidate" /\ Len(cx[t].names) > 0

\* the call of t has run the queries of a Refresh
RanRefresh(t) == cx[t].op \in {"Refresh", "IsInstalled"} /\ cx[t].ran /\ ~cx[t].lst.err

\* one step of the cache keeps the rule of LastUpdated
LastUpdatedStep ==
  /\ \A t \in Threads :
       (cx'[t] # cx[t] /\ KeepsLastUpdated(t)') =>
         cache'.LastUpdated = cache.LastUpdated
  /\ cache'.LastUpdated # cache.LastUpdated =>
       \/ \E t \in Threads : RanRefresh(t)' /\ cache'.LastUpdated = cacheClock
       \/ \E t \in Threads :
            /\ cx'[t].op = "Invalidate"
            /\ Len(cx'[t].names) = 0
            /\ cache'.LastUpdated = ZeroTime
       \/ \E t \in Threads :
            /\ cx'[t].op = "GetCache"
            /\ cache'.LastUpdated = loadFromDisk(cacheFile).LastUpdated
  /\ \A t \in Threads :
       (cx'[t].op = "IsInstalled" /\ Answered(t)' /\ StaleCall(t)') => cx'[t].ran

\* C27: MarkInstalled, MarkUpgraded, MarkUninstalled, RefreshVersions and
\* Invalidate with names leave LastUpdated as it was; it gets a new time
\* only from a Refresh that ran its queries (Invalidate without names
\* zeroes it and GetCache reads it from the file); an IsInstalled that
\* begins on a stale snapshot runs the Refresh.
C27_OnlyRefreshSetsLastUpdated == [][LastUpdatedStep]_vars

\* an IsInstalled ran a full Refresh on a cache that had never been
\* refreshed and in which a Mark call had put an installed entry
C27_Witness ==
  \E t \in SeqThreads :
    /\ cx[t].op = "IsInstalled"
    /\ Answered(t)
    /\ cx[t].ran
    /\ cx[t].before.cache.LastUpdated = ZeroTime
    /\ cx[t].name \in DOMAIN cx[t].before.cache.Packages
    /\ cx[t].before.cache.Packages[cx[t].name].Installed
    /\ cx[t].before.cache.Packages[cx[t].name].FetchedAt # ZeroTime

\* the call of t went as far as saveToDiskLocked
Saving(t) ==
  \/ cx[t].op \in {"MarkInstalled", "MarkUpgraded", "MarkUninstalled", "Invalidate"}
  \/ Versioned(t)
  \/ cx[t].op = "Refresh" /\ Rebuilt(t)

\* C28: after a call that changed the cache and returned nil, the file
\* decodes to the LastUpdated and the package map held in memory.
C28_FileMatchesMemory ==
  \A t \in SeqThreads :
    (Saving(t) /\ Answered(t) /\ cx[t].ret = "nil") =>
      /\ cacheFile # <<>>
      /\ loadFromDisk(cacheFile) = cache

\* a RefreshVersions returned nil and left an entry with a latest version
\* and no installed version, and the file decodes to the cache
C28_Witness ==
  \E t \in SeqThreads :
    /\ Versioned(t)
    /\ Answered(t)
    /\ cx[t].ret = "nil"
    /\ "foo" \in DOMAIN cache.Packages
    /\ cache.Packages["foo"].InstalledVersion = ""
    /\ cache.Packages["foo"].LatestVersion = "2.0"
    /\ loadFromDisk(cacheFile) = cache
    /\ cache # cx[t].before.cache

\* C29: a call whose write of the cache file fails returns nil all the
\* same.
C29_SaveErrorSwallowed ==
  \A t \in SeqThreads :
    (Saving(t) /\ Answered(t) /\ cx[t].sv # "ok") => cx[t].ret = "nil"

\* the call of t is one of the loops over the map
Loops(t) == cx[t].op \in {"GetInstalledSet", "GetOutdatedMap"}

\* C30: whatever a read has seen, and what it returns, comes from one of
\* the complete maps the cache held during the read: every entry a loop
\* has read is an entry of that map, a finished loop has read all of it
\* and returns its installed set or its outdated map, and GetState and
\* IsInstalled answer from one such map.
C30_NoMixedGeneration ==
  \A t \in Threads :
    /\ (Loops(t) /\ cx[t].pc \in {"ranging", "idle"}) =>
         \E g \in cx[t].gens :
           /\ \A n \in DOMAIN cx[t].view : n \in DOMAIN g /\ cx[t].view[n] = g[n]
           /\ cx[t].todo = {} => DOMAIN cx[t].view = DOMAIN g
           /\ (cx[t].todo = {} /\ cx[t].op = "GetInstalledSet") =>
                cx[t].installed = InstalledIn(g)
           /\ (cx[t].todo = {} /\ cx[t].op = "GetOutdatedMap") =>
                cx[t].outdated = OutdatedIn(g)
    /\ Loops(t) => Cardinality(cx[t].gens) = 1
    /\ (cx[t].op = "GetState" /\ Answered(t)) =>
         \E g \in cx[t].gens :
           /\ cx[t].found = (cx[t].name \in DOMAIN g)
           /\ cx[t].found => cx[t].state = g[cx[t].name]
    /\ (cx[t].op = "IsInstalled" /\ Answered(t)) =>
         \E g \in cx[t].gens :
           cx[t].ans = (cx[t].name \in DOMAIN g /\ g[cx[t].name].Installed)

\* a loop has read the two entries of the map and holds the read lock
\* while a Refresh of the other goroutine waits for the write lock
C30_Witness ==
  \E t \in Threads, u \in Threads :
    /\ t # u
    /\ cx[t].op = "GetOutdatedMap"
    /\ cx[t].pc = "ranging"
    /\ cx[t].todo = {}
    /\ DOMAIN cx[t].view = {"foo", "bar"}
    /\ DOMAIN cx[t].outdated = {"foo"}
    /\ cx[u].op = "Refresh"
    /\ cx[u].pc = "locking"

\* the last fetch of the returned call of p answered 200 with a body that
\* is not a JSON array of well-formed records
GotBadBody(p) ==
  /\ Done(p)
  /\ ~run[p].res.err
  /\ run[p].res.Status = 200
  /\ ~WellFormed(run[p].res.Body)

\* C31: a call whose 200 response carries a body that is not a top-level
\* JSON array, or that holds a malformed record, returns an error; the
\* build yields the empty Result, and the blob, the hot cache and the
\* metadata fields ETag, UpstreamETag and LastSuccess are as before the call.
C31_StrictBuild ==
  \A p \in Procs :
    GotBadBody(p) =>
      /\ run[p].ret = "err"
      /\ \A t \in run[p].now..clock :
           BuildLightIndex(run[p].res.Body, t) = EmptyResult
      /\ indexFile = run[p].snap.indexFile
      /\ hot[p] = run[p].snap.hot
      /\ ReadMeta[2].ETag = MetaAtStart(p).ETag
      /\ ReadMeta[2].UpstreamETag = MetaAtStart(p).UpstreamETag
      /\ ReadMeta[2].LastSuccess = MetaAtStart(p).LastSuccess

\* C32: after a crash while a call persists the snapshot, the cache file
\* holds the complete previous snapshot or the complete new one, and the
\* cache of the next start is one of the two.
C32_CrashKeepsSnapshot ==
  \A t \in SeqThreads :
    cx[t].op = "CrashInSave" =>
      LET new == MarkedInstalled(cx[t].before.cache, cx[t].name, cx[t].version, cx[t].at)
      IN /\ cacheFile \in {cx[t].before.cacheFile, <<Marshal(new)>>}
         /\ cache \in {loadFromDisk(cx[t].before.cacheFile), new}

\* the step is a call of Invalidate by t
InvalidateStep(t) == cx'[t].op = "Invalidate" /\ cx'[t] # cx[t]

\* C33: Invalidate() keeps every entry and resets LastUpdated, so that the
\* IsInstalled that follows it runs the list query of a full Refresh;
\* Invalidate(names...) deletes exactly the named entries and keeps the
\* other entries and LastUpdated as they were.
C33_InvalidateFrame ==
  [][\A t \in SeqThreads :
       /\ (InvalidateStep(t) /\ Len(cx'[t].names) = 0) =>
            /\ cache'.Packages = cache.Packages
            /\ cache'.LastUpdated = ZeroTime
       /\ (InvalidateStep(t) /\ Len(cx'[t].names) > 0) =>
            /\ DOMAIN cache'.Packages = DOMAIN cache.Packages \ Elems(cx'[t].names)
            /\ \A n \in DOMAIN cache'.Packages : cache'.Packages[n] = cache.Packages[n]
            /\ cache'.LastUpdated = cache.LastUpdated
       /\ (cx[t].op = "Invalidate" /\ Len(cx[t].names) = 0 /\ cx'[t].op = "IsInstalled") =>
            cx'[t].pc = "isRefresh"
       /\ (cx[t].pc = "isRefresh" /\ cx'[t].pc # "isRefresh") =>
            /\ Len(commands') > Len(commands)
            /\ commands'[Len(commands) + 1] = "list"
    ]_vars

\* an IsInstalled has returned that began on a cache with entries and a zero
\* LastUpdated, which only Invalidate() leaves, and ran the list query
C33_Witness ==
  \E t \in SeqThreads :
    /\ cx[t].op = "IsInstalled"
    /\ cx[t].pc = "idle"
    /\ cx[t].before.cache.LastUpdated = ZeroTime
    /\ DOMAIN cx[t].before.cache.Packages # {}
    /\ Len(commands) > Len(cx[t].before.commands)
    /\ commands[Len(cx[t].before.commands) + 1] = "list"

\* C34: in every state of the cache and for every package p, the map of
\* GetOutdatedMap has an entry for p exactly when GetState(p) reports
\* Installed and Outdated, and the entry carries the name and the two
\* versions GetState(p) reports.
C34_OutdatedMapMatchesState ==
  \A p \in PkgNames :
    LET ok == p \in DOMAIN cache.Packages
        pkg == EntryOf(cache, p)
        m == OutdatedIn(cache.Packages) IN
    /\ (p \in DOMAIN m) <=> (ok /\ pkg.Installed /\ pkg.Outdated)
    /\ p \in DOMAIN m =>
         /\ m[p].Name = p
         /\ m[p].InstalledVersion = pkg.InstalledVersion
         /\ m[p].LatestVersion = pkg.LatestVersion

\* one entry is installed and outdated and is in the map, another is
\* outdated without being installed and is not
C34_Witness ==
  \E p \in PkgNames, q \in PkgNames :
    /\ p \in DOMAIN OutdatedIn(cache.Packages)
    /\ q \in DOMAIN cache.Packages
    /\ cache.Packages[q].Outdated
    /\ ~cache.Packages[q].Installed

\* the file is not a snapshot the program wrote
Damaged(file) ==
  file = <<>> \/ DOMAIN file[1] \cap {"unreadable", "corrupt", "mistyped"} # {}

\* C35: GetCache over a missing, unreadable or corrupt cache file returns
\* without error a cache with an empty map and a zero LastUpdated, which
\* needs a refresh at the first IsInstalled.
C35_DamagedFileGivesEmptyCache ==
  \A t \in SeqThreads :
    (cx[t].op = "GetCache" /\ Damaged(cx[t].before.cacheFile)) =>
      /\ cx[t].ret = "nil"
      /\ cache = EmptyCache
      /\ needsRefreshLocked(cache, cacheClock)

\* the build of the call of p ran under a context that was cancelled before
\* one of the records of the body was decoded, the records before it being
\* well formed
CanceledInLoop(p) ==
  LET k == run[p].cancelAt
      body == run[p].res.Body IN
  /\ k > 0
  /\ body.top = "array"
  /\ k <= Len(body.recs)
  /\ \A j \in 1..(k - 1) : body.recs[j] # "BAD"

\* C36: when the context is cancelled before the k-th record of the body is
\* decoded, BuildLightIndex returns the context's error and the empty
\* Result, and the RefreshIndex that ran it returns an error with the blob,
\* the hot cache and the metadata fields ETag, UpstreamETag and LastSuccess
\* as they were before the call.
C36_CancelAbortsBuild ==
  \A p \in Procs :
    CanceledInLoop(p) =>
      /\ \A t \in run[p].now..clock :
           BuildLightIndexCtx(run[p].res.Body, t, run[p].cancelAt) = <<"canceled", EmptyResult>>
      /\ run[p].berr = "canceled"
      /\ Done(p)
      /\ run[p].ret = "err"
      /\ run[p].blobWrites = 0
      /\ indexFile = run[p].snap.indexFile
      /\ hot[p] = run[p].snap.hot
      /\ ReadMeta[2].ETag = MetaAtStart(p).ETag
      /\ ReadMeta[2].UpstreamETag = MetaAtStart(p).UpstreamETag
      /\ ReadMeta[2].LastSuccess = MetaAtStart(p).LastSuccess

\* a build was cancelled after its first record was decoded and before the
\* second, over a stored catalog
C36_Witness ==
  \E p \in Procs :
    /\ CanceledInLoop(p)
    /\ run[p].cancelAt = 2
    /\ run[p].res.Body = GoodBody2
    /\ run[p].ret = "err"
    /\ indexFile # <<>>

\* C37: once the handler of a successful install has returned, the cache
\* holds the package as installed, so that IsInstalled answers true while
\* the snapshot is within its TTL, whatever the two version queries of the
\* handler answered.
C37_InstalledAfterInstall ==
  \A t \in SeqThreads :
    (cx[t].op = "PostInstall" /\ Answered(t) /\ ~needsRefreshLocked(cache, cacheClock)) =>
      Lookup(cache, cx[t].name)

\* the call of t refreshes only a stale snapshot
NonForced(t) == cx[t].op = "IsInstalled" \/ (cx[t].op = "Refresh" /\ ~cx[t].force)

\* the Refresh of the call of t has released the write lock
PastRefresh(t) == cx[t].pc \in {"isRead", "refreshed"} \/ Answered(t)

\* the commands run since the call of t began
Since(t) == SubSeq(commands, Len(cx[t].before.commands) + 1, Len(commands))

\* t and u called on the same stale snapshot, both are past their Refresh,
\* and the list query of the first Refresh to run succeeded
RacedOnStale(t, u) ==
  /\ t # u
  /\ NonForced(t) /\ NonForced(u)
  /\ StaleCall(t) /\ StaleCall(u)
  /\ cx[t].before.commands = cx[u].before.commands
  /\ PastRefresh(t) /\ PastRefresh(u)
  /\ Len(Since(t)) >= 2
  /\ Since(t)[1] = "list"
  /\ Since(t)[2] = "outdated"

\* C38: when two calls of IsInstalled or Refresh(false) meet on a stale
\* snapshot and the first Refresh to run succeeds, the list query has run
\* once: one of the two ran the queries and the other skipped them.
C38_ListRunsOnce ==
  \A t \in Threads, u \in Threads :
    RacedOnStale(t, u) =>
      /\ Cardinality({i \in 1..Len(Since(t)) : Since(t)[i] = "list"}) = 1
      /\ cx[t].ran # cx[u].ran

\* two IsInstalled found the snapshot stale at the same time and have both
\* answered
C38_Witness ==
  \E t \in Threads, u \in Threads :
    /\ RacedOnStale(t, u)
    /\ cx[t].op = "IsInstalled" /\ cx[u].op = "IsInstalled"
    /\ Answered(t) /\ Answered(u)

\* C39: in the BrewState FetchState returns, every package of the Outdated
\* map is in the Installed set.
C39_FetchStateConsistent ==
  \A t \in Threads :
    (cx[t].op = "FetchState" /\ Answered(t) /\ cx[t].ret = "nil") =>
      DOMAIN cx[t].outdated \subseteq cx[t].installed

\* C40: while the process has no WriteIndexGZ in progress, a hot cache that
\* holds data holds the bytes of the blob file, and its ETag is the ETag of
\* the metadata file.
C40_HotMatchesDisk ==
  \A p \in SeqProcs :
    (run[p].pc = "idle" /\ GetHot(p).hotData # <<>>) =>
      /\ GetHot(p).hotData = indexFile
      /\ ~ReadMeta[1]
      /\ GetHot(p).hotETag = ReadMeta[2].ETag

====
